---- MODULE Spec2Model ----
(***************************************************************************)
(* AgentMail SMTP demo server: the session engine (session-state,          *)
(* SessionManager, the smtp-server hooks of server.ts), the credential     *)
(* validation pipeline (auth/validator) and the auth error taxonomy        *)
(* (auth/errors).                                                          *)
(*                                                                         *)
(* Strings that the code inspects character by character (the username     *)
(* and the password, matched against regular expressions and used as       *)
(* table keys) are sequences of one-character strings.  Timestamps are     *)
(* integers (milliseconds on the clock `now`).  NULL stands for            *)
(* JavaScript's null / undefined.                                          *)
(***************************************************************************)
EXTENDS Integers, Sequences, FiniteSets, TLC

\* Optional values: NULL is the absent value, Some(v) a present one
NULL == <<>>
Some(v) == <<v>>
Val(o) == o[1]

\* ------------------------------------------------------------------------
\* Character classes used by the validator's regular expressions
\* ------------------------------------------------------------------------
Digits == {"0","1","2","3","4","5","6","7","8","9"}
Lower == {"a","b","c","d","e","f","g","h","i","j","k","l","m",
          "n","o","p","q","r","s","t","u","v","w","x","y","z"}
Upper == {"A","B","C","D","E","F","G","H","I","J","K","L","M",
          "N","O","P","Q","R","S","T","U","V","W","X","Y","Z"}
Alnum == Lower \cup Upper \cup Digits
Letters == Lower \cup Upper
LocalChars == Alnum \cup {".","_","%","+","-"}
DomainChars == Alnum \cup {".","-"}

AllIn(str, lo, hi, class) == \A i \in lo..hi : str[i] \in class

\* ------------------------------------------------------------------------
\* Inputs: usernames and passwords a client can present
\* ------------------------------------------------------------------------
EMPTY == <<>>
\* "inb_valid1234567890" (length 19)
U_VALID == <<"i","n","b","_","v","a","l","i","d","1","2","3","4","5","6","7","8","9","0">>
\* "inb_disabled456789012" (length 21)
U_DISABLED == <<"i","n","b","_","d","i","s","a","b","l","e","d","4","5","6","7","8","9","0","1","2">>
\* "inb_suspended78901234" (length 21)
U_SUSPENDED == <<"i","n","b","_","s","u","s","p","e","n","d","e","d","7","8","9","0","1","2","3","4">>
\* "inb_notexist123456" (length 18)
U_NOTEXIST == <<"i","n","b","_","n","o","t","e","x","i","s","t","1","2","3","4","5","6">>
\* "jolly16@agentmail.to" (length 20)
U_EMAIL == <<"j","o","l","l","y","1","6","@","a","g","e","n","t","m","a","i","l",".","t","o">>
\* "inb_short" (length 9)
U_SHORT == <<"i","n","b","_","s","h","o","r","t">>
\* "user@host" (length 9)
U_NODOT == <<"u","s","e","r","@","h","o","s","t">>
\* "a@b.c" (length 5)
U_BADTLD == <<"a","@","b",".","c">>
\* "am_validkey12345678901234567890123456" (length 37)
P_VALID == <<"a","m","_","v","a","l","i","d","k","e","y","1","2","3","4","5","6","7","8","9","0","1","2","3","4","5","6","7","8","9","0","1","2","3","4","5","6">>
\* "am_wrongorg45678901234567890123456789" (length 37)
P_WRONGORG == <<"a","m","_","w","r","o","n","g","o","r","g","4","5","6","7","8","9","0","1","2","3","4","5","6","7","8","9","0","1","2","3","4","5","6","7","8","9">>
\* "am_revoked78901234567890123456789012" (length 36)
P_REVOKED == <<"a","m","_","r","e","v","o","k","e","d","7","8","9","0","1","2","3","4","5","6","7","8","9","0","1","2","3","4","5","6","7","8","9","0","1","2">>
\* "am_expired12345678901234567890123456" (length 36)
P_EXPIRED == <<"a","m","_","e","x","p","i","r","e","d","1","2","3","4","5","6","7","8","9","0","1","2","3","4","5","6","7","8","9","0","1","2","3","4","5","6">>
\* "am_noscope12345678901234567890123456" (length 36)
P_NOSCOPE == <<"a","m","_","n","o","s","c","o","p","e","1","2","3","4","5","6","7","8","9","0","1","2","3","4","5","6","7","8","9","0","1","2","3","4","5","6">>
\* "am_notexist123456789012345678901234" (length 35)
P_NOTEXIST == <<"a","m","_","n","o","t","e","x","i","s","t","1","2","3","4","5","6","7","8","9","0","1","2","3","4","5","6","7","8","9","0","1","2","3","4">>
\* "am_short" (length 8)
P_SHORT == <<"a","m","_","s","h","o","r","t">>
\* "am_a1a1a1a1a1a1a1a1a1a1a1a1a1a1a1b" (length 34)
P_LEN31 == <<"a","m","_","a","1","a","1","a","1","a","1","a","1","a","1","a","1","a","1","a","1","a","1","a","1","a","1","a","1","a","1","a","1","b">>
\* "am_a1a1a1a1a1a1a1a1a1a1a1a1a1a1a1a1-x" (length 37)
P_BADCHAR == <<"a","m","_","a","1","a","1","a","1","a","1","a","1","a","1","a","1","a","1","a","1","a","1","a","1","a","1","a","1","a","1","a","1","a","1","-","x">>
\* "keya1a1a1a1a1a1a1a1a1a1a1a1a1a1a1a1" (length 35)
P_NOPREFIX == <<"k","e","y","a","1","a","1","a","1","a","1","a","1","a","1","a","1","a","1","a","1","a","1","a","1","a","1","a","1","a","1","a","1","a","1">>

Usernames == {EMPTY, U_VALID, U_DISABLED, U_SUSPENDED, U_NOTEXIST, U_EMAIL,
              U_SHORT, U_NODOT, U_BADTLD}
Passwords == {EMPTY, P_VALID, P_WRONGORG, P_REVOKED, P_EXPIRED, P_NOSCOPE,
              P_NOTEXIST, P_SHORT, P_LEN31, P_BADCHAR, P_NOPREFIX}

\* ------------------------------------------------------------------------
\* auth/validator: format validators
\* ------------------------------------------------------------------------
INBOX_ID_MIN == 12
INBOX_ID_MAX == 32
TLD_MIN == 2
API_KEY_MIN == 32
API_KEY_MAX == 128

INB_PREFIX == <<"i","n","b","_">>
AM_PREFIX == <<"a","m","_">>

\* inb_[a-zA-Z0-9]{12,32}
LegacyInboxId(str) ==
    /\ Len(str) >= Len(INB_PREFIX) + INBOX_ID_MIN
    /\ Len(str) <= Len(INB_PREFIX) + INBOX_ID_MAX
    /\ SubSeq(str, 1, Len(INB_PREFIX)) = INB_PREFIX
    /\ AllIn(str, Len(INB_PREFIX) + 1, Len(str), Alnum)

\* [a-zA-Z0-9._%+-]+@[a-zA-Z0-9.-]+\.[a-zA-Z]{2,}
EmailInboxId(str) ==
    \E at \in 2..Len(str) :
        /\ str[at] = "@"
        /\ AllIn(str, 1, at - 1, LocalChars)
        /\ \E dot \in (at + 2)..(Len(str) - TLD_MIN) :
              /\ str[dot] = "."
              /\ AllIn(str, at + 1, dot - 1, DomainChars)
              /\ AllIn(str, dot + 1, Len(str), Letters)

validateInboxIdFormat(inboxId) == LegacyInboxId(inboxId) \/ EmailInboxId(inboxId)

\* variant with the lower length bound off by one: am_[a-zA-Z0-9]{31,128}
validateApiKeyFormat_offByOne(apiKey) ==
    /\ Len(apiKey) >= Len(AM_PREFIX) + API_KEY_MIN - 1
    /\ Len(apiKey) <= Len(AM_PREFIX) + API_KEY_MAX
    /\ SubSeq(apiKey, 1, Len(AM_PREFIX)) = AM_PREFIX
    /\ AllIn(apiKey, Len(AM_PREFIX) + 1, Len(apiKey), Alnum)

validateApiKeyFormat(apiKey) ==
    /\ Len(apiKey) >= Len(AM_PREFIX) + API_KEY_MIN
    /\ Len(apiKey) <= Len(AM_PREFIX) + API_KEY_MAX
    /\ SubSeq(apiKey, 1, Len(AM_PREFIX)) = AM_PREFIX
    /\ AllIn(apiKey, Len(AM_PREFIX) + 1, Len(apiKey), Alnum)

\* ------------------------------------------------------------------------
\* auth/errors: the taxonomy
\* ------------------------------------------------------------------------
AuthErrorCode == {"INVALID_API_KEY_FORMAT", "API_KEY_NOT_FOUND", "API_KEY_REVOKED",
                  "API_KEY_EXPIRED", "INVALID_INBOX_ID_FORMAT", "INBOX_NOT_FOUND",
                  "INBOX_DISABLED", "INBOX_SUSPENDED", "INBOX_ORG_MISMATCH",
                  "INSUFFICIENT_PERMISSIONS", "DATABASE_ERROR", "RATE_LIMITED",
                  "SERVICE_UNAVAILABLE"}

AuthErrorDef(c, smtp, enh, msg) ==
    [code |-> c, smtpCode |-> smtp, enhancedCode |-> enh, message |-> msg]

AUTH_ERRORS ==
    [c \in AuthErrorCode |->
        CASE c = "INVALID_API_KEY_FORMAT" -> AuthErrorDef(c, 535, "5.7.8", "Authentication credentials invalid")
          [] c = "API_KEY_NOT_FOUND" -> AuthErrorDef(c, 535, "5.7.8", "Authentication credentials invalid")
          [] c = "API_KEY_REVOKED" -> AuthErrorDef(c, 535, "5.7.8", "Authentication credentials invalid")
          [] c = "API_KEY_EXPIRED" -> AuthErrorDef(c, 535, "5.7.8", "Authentication credentials invalid")
          [] c = "INVALID_INBOX_ID_FORMAT" -> AuthErrorDef(c, 535, "5.7.8", "Authentication credentials invalid")
          [] c = "INBOX_NOT_FOUND" -> AuthErrorDef(c, 535, "5.7.8", "Authentication credentials invalid")
          [] c = "INBOX_DISABLED" -> AuthErrorDef(c, 535, "5.7.8", "Authentication credentials invalid")
          [] c = "INBOX_SUSPENDED" -> AuthErrorDef(c, 535, "5.7.8", "Account suspended - contact support")
          [] c = "INBOX_ORG_MISMATCH" -> AuthErrorDef(c, 535, "5.7.8", "Authentication credentials invalid")
          [] c = "INSUFFICIENT_PERMISSIONS" -> AuthErrorDef(c, 535, "5.7.8", "Insufficient permissions for SMTP access")
          [] c = "DATABASE_ERROR" -> AuthErrorDef(c, 454, "4.7.0", "Temporary authentication failure, please retry")
          [] c = "RATE_LIMITED" -> AuthErrorDef(c, 454, "4.7.0", "Too many authentication attempts, please retry later")
          [] c = "SERVICE_UNAVAILABLE" -> AuthErrorDef(c, 454, "4.7.0", "Authentication service temporarily unavailable")]

\* variant that reports a store fault as a key that does not exist
createAuthError_conflated(errorCode, logMessage) ==
    LET c == IF errorCode = "DATABASE_ERROR" THEN "API_KEY_NOT_FOUND" ELSE errorCode IN
    [code |-> AUTH_ERRORS[c].code,
     smtpCode |-> AUTH_ERRORS[c].smtpCode,
     enhancedCode |-> AUTH_ERRORS[c].enhancedCode,
     message |-> AUTH_ERRORS[c].message,
     logMessage |-> logMessage]

\* createAuthError: the table entry plus the internal log message
createAuthError(errorCode, logMessage) ==
    [code |-> AUTH_ERRORS[errorCode].code,
     smtpCode |-> AUTH_ERRORS[errorCode].smtpCode,
     enhancedCode |-> AUTH_ERRORS[errorCode].enhancedCode,
     message |-> AUTH_ERRORS[errorCode].message,
     logMessage |-> logMessage]

\* A response line as the client sees it: code, enhanced code, text
Response(code, enh, msg) == [code |-> code, enhancedCode |-> enh, message |-> msg]

\* variant that answers every authentication failure with the sequencing error
createSMTPAuthError_sequencing(error) == Response(503, "5.5.1", "Bad sequence of commands")

\* createSMTPAuthError: the client-visible part of an AuthError
createSMTPAuthError(error) == Response(error.smtpCode, error.enhancedCode, error.message)

\* ------------------------------------------------------------------------
\* mock/database: the credential store
\* ------------------------------------------------------------------------
\* '2024-01-01T00:00:00Z' and '2024-12-01T00:00:00Z' on the model's clock
T_2024_01_01 == 1
T_2024_12_01 == 2
\* the server is started after the dates that occur in the mock data
StartTime == T_2024_12_01 + 1

SMTP_SEND == "smtp:send"

MockInbox(id, email, org, status) ==
    [inbox_id |-> id, email_address |-> email, organization_id |-> org, status |-> status]

MockApiKey(id, org, revoked, expires, scopes) ==
    [api_key_id |-> id, organization_id |-> org, revoked_at |-> revoked,
     expires_at |-> expires, scopes |-> scopes]

MOCK_INBOXES ==
    (U_VALID :> MockInbox("inb_valid1234567890", "test@agentmail.dev", "org_abc", "active"))
    @@ (U_DISABLED :> MockInbox("inb_disabled456789012", "disabled@agentmail.dev", "org_abc", "disabled"))
    @@ (U_SUSPENDED :> MockInbox("inb_suspended78901234", "suspended@agentmail.dev", "org_abc", "suspended"))

MOCK_API_KEYS ==
    (P_VALID :> MockApiKey("key_valid_1", "org_abc", NULL, NULL,
                           Some({"smtp:send", "messages:read", "messages:write"})))
    @@ (P_WRONGORG :> MockApiKey("key_wrongorg_2", "org_xyz", NULL, NULL, Some({"smtp:send"})))
    @@ (P_REVOKED :> MockApiKey("key_revoked_3", "org_abc", Some(T_2024_12_01), NULL, Some({"smtp:send"})))
    @@ (P_EXPIRED :> MockApiKey("key_expired_4", "org_abc", NULL, Some(T_2024_01_01), Some({"smtp:send"})))
    @@ (P_NOSCOPE :> MockApiKey("key_noscope_5", "org_abc", NULL, NULL, Some({"messages:read"})))

\* getInbox / getApiKey: TABLE[key] || null
getInbox(table, inbox_id) == IF inbox_id \in DOMAIN table THEN Some(table[inbox_id]) ELSE NULL
getApiKey(table, apiKey) == IF apiKey \in DOMAIN table THEN Some(table[apiKey]) ELSE NULL

\* ------------------------------------------------------------------------
\* auth/validator: validateSMTPCredentials
\*   keys, inboxes : the store's two tables
\*   keyFault, inboxFault : the lookup throws (the store is unavailable)
\*   t : the evaluation time (new Date())
\* The result carries the lookups the run performed, in order.  A key
\* record whose scopes field is absent makes step 6 throw: the promise is
\* rejected (threw = TRUE) and onAuth's catch handles it.
\* ------------------------------------------------------------------------
\* step 4's condition: if (apiKey.revoked_at)
\* variant that honours a revocation only on a key without expiry
keyRevoked_unlessExpiring(apiKey) == apiKey.revoked_at # NULL /\ apiKey.expires_at = NULL

keyRevoked(apiKey) == apiKey.revoked_at # NULL

\* step 5's condition: apiKey.expires_at && new Date(apiKey.expires_at) < new Date()
\* variant that also refuses a key expiring at the evaluation time
keyExpired_inclusive(apiKey, t) == apiKey.expires_at # NULL /\ Val(apiKey.expires_at) <= t

keyExpired(apiKey, t) == apiKey.expires_at # NULL /\ Val(apiKey.expires_at) < t

\* step 9's condition: inbox.organization_id !== apiKey.organization_id
\* variant that compares the inbox's organization with itself
orgMismatch_selfCompare(inbox, apiKey) == inbox.organization_id # inbox.organization_id

orgMismatch(inbox, apiKey) == inbox.organization_id # apiKey.organization_id

AuthFail(errorCode, logMessage, lookups) ==
    [success |-> FALSE, threw |-> FALSE, error |-> Some(createAuthError(errorCode, logMessage)),
     user |-> NULL, lookups |-> lookups]

AuthThrow(lookups) ==
    [success |-> FALSE, threw |-> TRUE, error |-> NULL, user |-> NULL, lookups |-> lookups]

AuthSuccess(inbox, apiKey, lookups) ==
    [success |-> TRUE, threw |-> FALSE, error |-> NULL,
     user |-> Some([inbox_id |-> inbox.inbox_id,
                    organization_id |-> inbox.organization_id,
                    email_address |-> inbox.email_address,
                    api_key_id |-> apiKey.api_key_id]),
     lookups |-> lookups]

\* variant that looks the inbox up before it checks the key's scope
validateSMTPCredentials_inboxFirst(username, password, keys, inboxes, keyFault, inboxFault, t) ==
    \* STEP 1: inbox_id format
    IF username = EMPTY
    THEN AuthFail("INVALID_INBOX_ID_FORMAT", "Empty or invalid username provided", <<>>)
    ELSE IF ~validateInboxIdFormat(username)
    THEN AuthFail("INVALID_INBOX_ID_FORMAT", "Invalid inbox_id format", <<>>)
    \* STEP 2: API key format
    ELSE IF password = EMPTY
    THEN AuthFail("INVALID_API_KEY_FORMAT", "Empty or invalid password/API key provided", <<>>)
    ELSE IF ~validateApiKeyFormat(password)
    THEN AuthFail("INVALID_API_KEY_FORMAT", "Invalid API key format", <<>>)
    \* STEP 3: look up the API key
    ELSE IF keyFault
    THEN AuthFail("DATABASE_ERROR", "Database error looking up API key", <<"getApiKey">>)
    ELSE LET found == getApiKey(keys, password) IN
    IF found = NULL
    THEN AuthFail("API_KEY_NOT_FOUND", "API key not found in database", <<"getApiKey">>)
    ELSE LET apiKey == Val(found) IN
    \* STEP 4: revoked
    IF apiKey.revoked_at # NULL
    THEN AuthFail("API_KEY_REVOKED", "API key was revoked", <<"getApiKey">>)
    \* STEP 5: expired
    ELSE IF apiKey.expires_at # NULL /\ Val(apiKey.expires_at) < t
    THEN AuthFail("API_KEY_EXPIRED", "API key expired", <<"getApiKey">>)
    \* STEP 7: look up the inbox
    ELSE IF inboxFault
    THEN AuthFail("DATABASE_ERROR", "Database error looking up inbox", <<"getApiKey", "getInbox">>)
    ELSE LET foundInbox == getInbox(inboxes, username) IN
    IF foundInbox = NULL
    THEN AuthFail("INBOX_NOT_FOUND", "Inbox not found", <<"getApiKey", "getInbox">>)
    ELSE LET inbox == Val(foundInbox) IN
    \* STEP 6: smtp:send scope
    IF apiKey.scopes = NULL
    THEN AuthThrow(<<"getApiKey", "getInbox">>)
    ELSE IF SMTP_SEND \notin Val(apiKey.scopes)
    THEN AuthFail("INSUFFICIENT_PERMISSIONS", "API key lacks smtp:send scope", <<"getApiKey", "getInbox">>)
    \* STEP 8: inbox status
    ELSE IF inbox.status = "disabled"
    THEN AuthFail("INBOX_DISABLED", "Inbox is disabled", <<"getApiKey", "getInbox">>)
    ELSE IF inbox.status = "suspended"
    THEN AuthFail("INBOX_SUSPENDED", "Inbox is suspended", <<"getApiKey", "getInbox">>)
    \* STEP 9: organization match
    ELSE IF inbox.organization_id # apiKey.organization_id
    THEN AuthFail("INBOX_ORG_MISMATCH", "Inbox org != API key org", <<"getApiKey", "getInbox">>)
    ELSE AuthSuccess(inbox, apiKey, <<"getApiKey", "getInbox">>)

validateSMTPCredentials(username, password, keys, inboxes, keyFault, inboxFault, t) ==
    \* STEP 1: inbox_id format
    IF username = EMPTY
    THEN AuthFail("INVALID_INBOX_ID_FORMAT", "Empty or invalid username provided", <<>>)
    ELSE IF ~validateInboxIdFormat(username)
    THEN AuthFail("INVALID_INBOX_ID_FORMAT", "Invalid inbox_id format", <<>>)
    \* STEP 2: API key format
    ELSE IF password = EMPTY
    THEN AuthFail("INVALID_API_KEY_FORMAT", "Empty or invalid password/API key provided", <<>>)
    ELSE IF ~validateApiKeyFormat(password)
    THEN AuthFail("INVALID_API_KEY_FORMAT", "Invalid API key format", <<>>)
    \* STEP 3: look up the API key
    ELSE IF keyFault
    THEN AuthFail("DATABASE_ERROR", "Database error looking up API key", <<"getApiKey">>)
    ELSE LET found == getApiKey(keys, password) IN
    IF found = NULL
    THEN AuthFail("API_KEY_NOT_FOUND", "API key not found in database", <<"getApiKey">>)
    ELSE LET apiKey == Val(found) IN
    \* STEP 4: revoked
    IF keyRevoked(apiKey)
    THEN AuthFail("API_KEY_REVOKED", "API key was revoked", <<"getApiKey">>)
    \* STEP 5: expired
    ELSE IF keyExpired(apiKey, t)
    THEN AuthFail("API_KEY_EXPIRED", "API key expired", <<"getApiKey">>)
    \* STEP 6: smtp:send scope
    ELSE IF apiKey.scopes = NULL
    THEN AuthThrow(<<"getApiKey">>)
    ELSE IF SMTP_SEND \notin Val(apiKey.scopes)
    THEN AuthFail("INSUFFICIENT_PERMISSIONS", "API key lacks smtp:send scope", <<"getApiKey">>)
    \* STEP 7: look up the inbox
    ELSE IF inboxFault
    THEN AuthFail("DATABASE_ERROR", "Database error looking up inbox", <<"getApiKey", "getInbox">>)
    ELSE LET foundInbox == getInbox(inboxes, username) IN
    IF foundInbox = NULL
    THEN AuthFail("INBOX_NOT_FOUND", "Inbox not found", <<"getApiKey", "getInbox">>)
    ELSE LET inbox == Val(foundInbox) IN
    \* STEP 8: inbox status
    IF inbox.status = "disabled"
    THEN AuthFail("INBOX_DISABLED", "Inbox is disabled", <<"getApiKey", "getInbox">>)
    ELSE IF inbox.status = "suspended"
    THEN AuthFail("INBOX_SUSPENDED", "Inbox is suspended", <<"getApiKey", "getInbox">>)
    \* STEP 9: organization match
    ELSE IF orgMismatch(inbox, apiKey)
    THEN AuthFail("INBOX_ORG_MISMATCH", "Inbox org != API key org", <<"getApiKey", "getInbox">>)
    ELSE AuthSuccess(inbox, apiKey, <<"getApiKey", "getInbox">>)

\* ------------------------------------------------------------------------
\* session/session-state: states, the two legality tables, constants
\* ------------------------------------------------------------------------
SMTPSessionState == {"INIT", "HELLO", "AUTHENTICATED", "MAIL_FROM", "RCPT_TO", "DATA", "COMPLETED"}

VALID_COMMANDS_BY_STATE ==
    [st \in SMTPSessionState |->
        CASE st = "INIT" -> {"EHLO", "HELO"}
          [] st = "HELLO" -> {"AUTH", "MAIL", "QUIT"}
          [] st = "AUTHENTICATED" -> {"MAIL", "QUIT"}
          [] st = "MAIL_FROM" -> {"RCPT", "QUIT"}
          [] st = "RCPT_TO" -> {"RCPT", "DATA", "QUIT"}
          [] st = "DATA" -> {}
          [] st = "COMPLETED" -> {"MAIL", "QUIT"}]

TransitionCommands == {"EHLO", "HELO", "AUTH", "MAIL", "RCPT", "DATA", "DATA_COMPLETE"}

COMMAND_STATE_TRANSITIONS ==
    [c \in TransitionCommands |->
        CASE c = "EHLO" -> [from |-> {"INIT"}, to |-> "HELLO"]
          [] c = "HELO" -> [from |-> {"INIT"}, to |-> "HELLO"]
          [] c = "AUTH" -> [from |-> {"HELLO"}, to |-> "AUTHENTICATED"]
          [] c = "MAIL" -> [from |-> {"HELLO", "AUTHENTICATED", "COMPLETED"}, to |-> "MAIL_FROM"]
          [] c = "RCPT" -> [from |-> {"MAIL_FROM", "RCPT_TO"}, to |-> "RCPT_TO"]
          [] c = "DATA" -> [from |-> {"RCPT_TO"}, to |-> "DATA"]
          [] c = "DATA_COMPLETE" -> [from |-> {"DATA"}, to |-> "COMPLETED"]]

SESSION_TIMEOUT_MS == 30 * 60 * 1000
MAX_RECIPIENTS == 50
CLEANUP_INTERVAL_MS == 5 * 60 * 1000

\* variant whose table does not let MAIL follow the greeting directly
canExecuteCommandInState_authFirst(state, command) ==
    IF state \in DOMAIN VALID_COMMANDS_BY_STATE
    THEN command \in VALID_COMMANDS_BY_STATE[state] /\ ~(state = "HELLO" /\ command = "MAIL")
    ELSE FALSE

canExecuteCommandInState(state, command) ==
    IF state \in DOMAIN VALID_COMMANDS_BY_STATE
    THEN command \in VALID_COMMANDS_BY_STATE[state]
    ELSE FALSE

\* variant that does not look at the current state
getNextState_anyState(currentState, command) ==
    IF command \notin DOMAIN COMMAND_STATE_TRANSITIONS
    THEN NULL
    ELSE Some(COMMAND_STATE_TRANSITIONS[command].to)

\* the next state, or NULL when the transition is invalid
getNextState(currentState, command) ==
    IF command \notin DOMAIN COMMAND_STATE_TRANSITIONS
    THEN NULL
    ELSE IF currentState \in COMMAND_STATE_TRANSITIONS[command].from
    THEN Some(COMMAND_STATE_TRANSITIONS[command].to)
    ELSE NULL

createEmptySession(sessionId, connection, t) ==
    [id |-> sessionId,
     state |-> "INIT",
     timestamps |-> [createdAt |-> t, lastActivityAt |-> t, authenticatedAt |-> NULL,
                     mailFromAt |-> NULL, dataStartedAt |-> NULL, completedAt |-> NULL],
     user |-> NULL,
     authenticated |-> FALSE,
     mailFrom |-> NULL,
     rcptTo |-> <<>>,
     messageData |-> NULL,
     messageId |-> NULL,
     connection |-> connection,
     messageCount |-> 0,
     stateHistory |-> <<>>]

\* ------------------------------------------------------------------------
\* session/session-manager: the SessionManager methods.
\* A method takes the result of getSession (Some(session) or NULL) and the
\* time t that new Date() returns; it yields what the method returns (ret,
\* NULL for null) and the session object after the call (sess).
\* ------------------------------------------------------------------------
Ret(ret, sess) == [ret |-> ret, sess |-> sess]

\* variant that changes the state without recording the transition
transitionState_unrecorded(o, command, newState, t) ==
    IF o = NULL
    THEN Ret(NULL, o)
    ELSE LET updated == [Val(o) EXCEPT !.state = newState,
                                       !.timestamps.lastActivityAt = t]
         IN Ret(Some(updated), Some(updated))

\* private transitionState: push the transition, set the state, touch
\* variant that records the transition without refreshing lastActivityAt
transitionState_noActivity(o, command, newState, t) ==
    IF o = NULL
    THEN Ret(NULL, o)
    ELSE LET session == Val(o)
             transition == [from |-> session.state, to |-> newState,
                            timestamp |-> t, command |-> command]
             updated == [session EXCEPT !.stateHistory = Append(@, transition),
                                        !.state = newState]
         IN Ret(Some(updated), Some(updated))

transitionState(o, command, newState, t) ==
    IF o = NULL
    THEN Ret(NULL, o)
    ELSE LET session == Val(o)
             transition == [from |-> session.state, to |-> newState,
                            timestamp |-> t, command |-> command]
             updated == [session EXCEPT !.stateHistory = Append(@, transition),
                                        !.state = newState,
                                        !.timestamps.lastActivityAt = t]
         IN Ret(Some(updated), Some(updated))

handleHello(o, clientHostname, t) ==
    IF o = NULL
    THEN Ret(NULL, o)
    ELSE LET session == Val(o)
             nextState == getNextState(session.state, "EHLO")
         IN IF nextState = NULL
            THEN Ret(NULL, o)
            ELSE LET named == IF clientHostname # NULL
                              THEN [session EXCEPT !.connection.clientHostname = clientHostname]
                              ELSE session
                 IN transitionState(Some(named), "EHLO", Val(nextState), t)

\* variant that stores the user and leaves the authenticated flag alone
handleAuthentication_userOnly(o, user, t) ==
    IF o = NULL
    THEN Ret(NULL, o)
    ELSE LET session == Val(o)
             nextState == getNextState(session.state, "AUTH")
         IN IF nextState = NULL
            THEN Ret(NULL, o)
            ELSE LET authed == [session EXCEPT !.user = Some(user),
                                               !.timestamps.authenticatedAt = Some(t)]
                 IN transitionState(Some(authed), "AUTH", Val(nextState), t)

\* variant that does not look at the state the session is in
handleAuthentication_noStateCheck(o, user, t) ==
    IF o = NULL
    THEN Ret(NULL, o)
    ELSE LET authed == [Val(o) EXCEPT !.user = Some(user),
                                      !.authenticated = TRUE,
                                      !.timestamps.authenticatedAt = Some(t)]
         IN transitionState(Some(authed), "AUTH", "AUTHENTICATED", t)

handleAuthentication(o, user, t) ==
    IF o = NULL
    THEN Ret(NULL, o)
    ELSE LET session == Val(o)
             nextState == getNextState(session.state, "AUTH")
         IN IF nextState = NULL
            THEN Ret(NULL, o)
            ELSE LET authed == [session EXCEPT !.user = Some(user),
                                               !.authenticated = TRUE,
                                               !.timestamps.authenticatedAt = Some(t)]
                 IN transitionState(Some(authed), "AUTH", Val(nextState), t)

\* variant that moves to MAIL_FROM without storing the sender
handleMailFrom_noSender(o, mailFrom, t) ==
    IF o = NULL
    THEN Ret(NULL, o)
    ELSE LET session == Val(o)
             nextState == getNextState(session.state, "MAIL")
         IN IF nextState = NULL
            THEN Ret(NULL, o)
            ELSE LET stored == [session EXCEPT !.timestamps.mailFromAt = Some(t),
                                               !.rcptTo = <<>>,
                                               !.messageData = NULL,
                                               !.messageId = NULL]
                 IN transitionState(Some(stored), "MAIL", Val(nextState), t)

handleMailFrom(o, mailFrom, t) ==
    IF o = NULL
    THEN Ret(NULL, o)
    ELSE LET session == Val(o)
             nextState == getNextState(session.state, "MAIL")
         IN IF nextState = NULL
            THEN Ret(NULL, o)
            ELSE LET stored == [session EXCEPT !.mailFrom = Some(mailFrom),
                                               !.timestamps.mailFromAt = Some(t),
                                               !.rcptTo = <<>>,
                                               !.messageData = NULL,
                                               !.messageId = NULL]
                 IN transitionState(Some(stored), "MAIL", Val(nextState), t)

\* variant whose limit check lets one recipient too many in
handleRcptTo_offByOne(o, recipient, t) ==
    IF o = NULL
    THEN Ret(NULL, o)
    ELSE LET session == Val(o) IN
         IF Len(session.rcptTo) > MAX_RECIPIENTS
         THEN Ret(NULL, o)
         ELSE LET nextState == getNextState(session.state, "RCPT") IN
              IF nextState = NULL
              THEN Ret(NULL, o)
              ELSE LET added == [session EXCEPT !.rcptTo =
                                    Append(@, [address |-> recipient, addedAt |-> t])]
                   IN IF session.state # "RCPT_TO"
                      THEN transitionState(Some(added), "RCPT", Val(nextState), t)
                      ELSE LET touched == [added EXCEPT !.timestamps.lastActivityAt = t]
                           IN Ret(Some(touched), Some(touched))

\* variant that records a transition for every recipient
handleRcptTo_alwaysTransitions(o, recipient, t) ==
    IF o = NULL
    THEN Ret(NULL, o)
    ELSE LET session == Val(o) IN
         IF Len(session.rcptTo) >= MAX_RECIPIENTS
         THEN Ret(NULL, o)
         ELSE LET nextState == getNextState(session.state, "RCPT") IN
              IF nextState = NULL
              THEN Ret(NULL, o)
              ELSE LET added == [session EXCEPT !.rcptTo =
                                    Append(@, [address |-> recipient, addedAt |-> t])]
                   IN IF TRUE
                      THEN transitionState(Some(added), "RCPT", Val(nextState), t)
                      ELSE LET touched == [added EXCEPT !.timestamps.lastActivityAt = t]
                           IN Ret(Some(touched), Some(touched))

handleRcptTo(o, recipient, t) ==
    IF o = NULL
    THEN Ret(NULL, o)
    ELSE LET session == Val(o) IN
         IF Len(session.rcptTo) >= MAX_RECIPIENTS
         THEN Ret(NULL, o)
         ELSE LET nextState == getNextState(session.state, "RCPT") IN
              IF nextState = NULL
              THEN Ret(NULL, o)
              ELSE LET added == [session EXCEPT !.rcptTo =
                                    Append(@, [address |-> recipient, addedAt |-> t])]
                   IN IF session.state # "RCPT_TO"
                      THEN transitionState(Some(added), "RCPT", Val(nextState), t)
                      ELSE LET touched == [added EXCEPT !.timestamps.lastActivityAt = t]
                           IN Ret(Some(touched), Some(touched))

handleDataStart(o, t) ==
    IF o = NULL
    THEN Ret(NULL, o)
    ELSE LET session == Val(o) IN
         IF Len(session.rcptTo) = 0
         THEN Ret(NULL, o)
         ELSE LET nextState == getNextState(session.state, "DATA") IN
              IF nextState = NULL
              THEN Ret(NULL, o)
              ELSE transitionState(
                       Some([session EXCEPT !.timestamps.dataStartedAt = Some(t)]),
                       "DATA", Val(nextState), t)

\* variant that does not count the completed message
handleDataComplete_noCount(o, messageId, t) ==
    IF o = NULL
    THEN Ret(NULL, o)
    ELSE LET session == Val(o)
             nextState == getNextState(session.state, "DATA_COMPLETE")
         IN IF nextState = NULL
            THEN Ret(NULL, o)
            ELSE transitionState(
                     Some([session EXCEPT !.messageId = Some(messageId),
                                          !.timestamps.completedAt = Some(t),
                                          !.messageCount = @]),
                     "DATA_COMPLETE", Val(nextState), t)

handleDataComplete(o, messageId, t) ==
    IF o = NULL
    THEN Ret(NULL, o)
    ELSE LET session == Val(o)
             nextState == getNextState(session.state, "DATA_COMPLETE")
         IN IF nextState = NULL
            THEN Ret(NULL, o)
            ELSE transitionState(
                     Some([session EXCEPT !.messageId = Some(messageId),
                                          !.timestamps.completedAt = Some(t),
                                          !.messageCount = @ + 1]),
                     "DATA_COMPLETE", Val(nextState), t)

\* resetForNewMessage returns nothing; sess is the object after the call
\* variant that starts the message count again
resetForNewMessage_zeroCount(o, t) ==
    IF o = NULL
    THEN o
    ELSE LET session == Val(o)
             newState == IF session.authenticated THEN "AUTHENTICATED" ELSE "HELLO"
         IN Some([session EXCEPT
                     !.mailFrom = NULL,
                     !.rcptTo = <<>>,
                     !.messageData = NULL,
                     !.messageId = NULL,
                     !.timestamps.mailFromAt = NULL,
                     !.timestamps.dataStartedAt = NULL,
                     !.timestamps.completedAt = NULL,
                     !.timestamps.lastActivityAt = t,
                     !.state = newState,
                     !.messageCount = 0,
                     !.stateHistory = Append(@, [from |-> session.state, to |-> newState,
                                                 timestamp |-> t, command |-> "RESET"])])

resetForNewMessage(o, t) ==
    IF o = NULL
    THEN o
    ELSE LET session == Val(o)
             newState == IF session.authenticated THEN "AUTHENTICATED" ELSE "HELLO"
         IN Some([session EXCEPT
                     !.mailFrom = NULL,
                     !.rcptTo = <<>>,
                     !.messageData = NULL,
                     !.messageId = NULL,
                     !.timestamps.mailFromAt = NULL,
                     !.timestamps.dataStartedAt = NULL,
                     !.timestamps.completedAt = NULL,
                     !.timestamps.lastActivityAt = t,
                     !.state = newState,
                     !.stateHistory = Append(@, [from |-> session.state, to |-> newState,
                                                 timestamp |-> t, command |-> "RESET"])])

\* variant that leaves the session as it is
updateActivity_nothing(o, t) == o

updateActivity(o, t) ==
    IF o = NULL
    THEN o
    ELSE Some([Val(o) EXCEPT !.timestamps.lastActivityAt = t])

\* variant that allows every command of an existing session
canExecuteCommand_always(o, command) == o # NULL

\* canExecuteCommand: false for a missing session
canExecuteCommand(o, command) ==
    IF o = NULL
    THEN FALSE
    ELSE canExecuteCommandInState(Val(o).state, command)

\* variant that reports the deletion and leaves the session in the map
deleteSession_keeps(ids, sessionId) ==
    [ret |-> sessionId \in ids, ids |-> ids]

\* deleteSession: the map without the id, and whether the id was in it
deleteSession(ids, sessionId) ==
    IF sessionId \in ids
    THEN [ret |-> TRUE, ids |-> ids \ {sessionId}]
    ELSE [ret |-> FALSE, ids |-> ids]

\* variant that also expires a session idle for exactly the timeout
sessionExpired_inclusive(inactiveMs) == inactiveMs >= SESSION_TIMEOUT_MS

\* cleanupExpiredSessions: the test on one session's inactivity
sessionExpired(inactiveMs) == inactiveMs > SESSION_TIMEOUT_MS

\* cleanupExpiredSessions: the loop over the entries of the map, deleting
\* and counting; acc is the map's keys and cleanedCount so far
RECURSIVE sweepEntries(_, _, _, _)
sweepEntries(todo, objects, t, acc) ==
    IF todo = {}
    THEN acc
    ELSE LET sessionId == CHOOSE id \in todo : TRUE
             inactiveMs == t - objects[sessionId].timestamps.lastActivityAt
         IN sweepEntries(todo \ {sessionId}, objects, t,
                         IF sessionExpired(inactiveMs)
                         THEN [ids |-> acc.ids \ {sessionId}, ret |-> acc.ret + 1]
                         ELSE acc)

\* cleanupExpiredSessions(): the keys left in the map and the count returned
cleanupExpiredSessions(ids, objects, t) ==
    sweepEntries(ids, objects, t, [ids |-> ids, ret |-> 0])

\* findExpired: the ids whose inactivity at time t exceeds the timeout
ExpiredIds(ids, objects, t) ==
    {id \in ids : t - objects[id].timestamps.lastActivityAt > SESSION_TIMEOUT_MS}

\* ------------------------------------------------------------------------
\* errors/mapping and errors/http-to-smtp-mapping
\* ------------------------------------------------------------------------
\* createSMTPError(code, enhancedCode, message): what the client is sent
createSMTPError(code, enhancedCode, message) == Response(code, enhancedCode, message)

LOCAL_ERROR == 451
INSUFFICIENT_STORAGE == 452
BAD_SEQUENCE == 503
AUTH_REQUIRED == 530
MAILBOX_NOT_FOUND == 550

SMTPResult(smtp, enh, msg, retryable) ==
    [smtpCode |-> smtp, enhancedCode |-> enh, message |-> msg, retryable |-> retryable]

MappedHttpStatuses == {200, 201, 400, 401, 403, 404, 413, 422, 429, 500, 502, 503, 504}

HTTP_TO_SMTP_MAPPINGS ==
    [h \in MappedHttpStatuses |->
        CASE h = 200 -> SMTPResult(250, "2.0.0", "Message accepted for delivery", FALSE)
          [] h = 201 -> SMTPResult(250, "2.0.0", "Message queued successfully", FALSE)
          [] h = 400 -> SMTPResult(501, "5.5.2", "Invalid message format or parameters", FALSE)
          [] h = 401 -> SMTPResult(535, "5.7.8", "Authentication credentials invalid", FALSE)
          [] h = 403 -> SMTPResult(550, "5.7.1", "Access denied", FALSE)
          [] h = 404 -> SMTPResult(550, "5.1.1", "Mailbox not found", FALSE)
          [] h = 413 -> SMTPResult(552, "5.2.3", "Message size exceeds maximum allowed", FALSE)
          [] h = 422 -> SMTPResult(554, "5.6.0", "Message content rejected", FALSE)
          [] h = 429 -> SMTPResult(450, "4.7.1", "Rate limit exceeded, try again later", TRUE)
          [] h = 500 -> SMTPResult(451, "4.3.0", "Temporary system error, please retry", TRUE)
          [] h = 502 -> SMTPResult(451, "4.4.1", "Upstream service unavailable, please retry", TRUE)
          [] h = 503 -> SMTPResult(421, "4.3.0", "Service temporarily unavailable", TRUE)
          [] h = 504 -> SMTPResult(451, "4.4.1", "Gateway timeout, please retry", TRUE)]

\* variant without the default for client errors: an unmapped 4xx falls
\* through to the temporary failure
mapHttpToSmtp_noClientDefault(httpStatus) ==
    IF httpStatus \in DOMAIN HTTP_TO_SMTP_MAPPINGS
    THEN HTTP_TO_SMTP_MAPPINGS[httpStatus]
    ELSE IF httpStatus >= 200 /\ httpStatus < 300
    THEN SMTPResult(250, "2.0.0", "Message accepted", FALSE)
    ELSE SMTPResult(451, "4.3.0", "Temporary failure, please retry", TRUE)

mapHttpToSmtp(httpStatus) ==
    IF httpStatus \in DOMAIN HTTP_TO_SMTP_MAPPINGS
    THEN HTTP_TO_SMTP_MAPPINGS[httpStatus]
    ELSE IF httpStatus >= 200 /\ httpStatus < 300
    THEN SMTPResult(250, "2.0.0", "Message accepted", FALSE)
    ELSE IF httpStatus >= 400 /\ httpStatus < 500
    THEN SMTPResult(550, "5.0.0", "Request rejected", FALSE)
    ELSE SMTPResult(451, "4.3.0", "Temporary failure, please retry", TRUE)

isRetryableHttpStatus(httpStatus) ==
    IF httpStatus \in DOMAIN HTTP_TO_SMTP_MAPPINGS
    THEN HTTP_TO_SMTP_MAPPINGS[httpStatus].retryable
    ELSE httpStatus = 429 \/ httpStatus >= 500

\* An exception thrown while onData processes a message:
\*   api      : it is an AgentMailAPIError (then httpStatus is its status)
\*   name     : error.constructor.name
\*   message  : error.message
\*   contains : the substrings, among those the code searches for, that
\*              error.message (as is) or its lower-cased form contains
Thrown(api, name, httpStatus, message, contains) ==
    [api |-> api, name |-> name, httpStatus |-> httpStatus,
     message |-> message, contains |-> contains]

\* the keys of ERROR_MAPPINGS
ERROR_MAPPING_NAMES == {"ValidationError", "InvalidEmailFormat", "InvalidInboxId",
    "MissingRequiredField", "InvalidHeaderFormat", "NotFoundError", "InboxNotFound",
    "RecipientNotFound", "ThreadNotFound", "MessageNotFound", "AttachmentNotFound",
    "AuthenticationRequired", "AuthenticationFailed", "ApiKeyInvalid", "ApiKeyRevoked",
    "ApiKeyExpired", "InsufficientPermissions", "RateLimitError", "TooManyConnections",
    "TooManyAuthAttempts", "DailyLimitExceeded", "LimitExceededError",
    "MessageTooLarge", "TooManyRecipients", "TooManyAttachments", "AttachmentTooLarge",
    "QuotaExceeded", "MessageRejectedError", "SpamDetected", "VirusDetected",
    "PolicyViolation", "ContentFiltered", "BlacklistedSender",
    "DomainNotVerifiedError", "SenderNotAuthorized", "RelayDenied",
    "InvalidSenderDomain", "AlreadyExistsError", "RaceConditionError", "InboxDisabled",
    "InboxSuspended", "OrganizationSuspended", "TLSRequired", "WeakAuthentication",
    "CertificateError", "ServerError", "DatabaseError", "TimeoutError",
    "ServiceUnavailable", "UpstreamError"}

ERROR_MAPPINGS ==
    [n \in ERROR_MAPPING_NAMES |->
        CASE n = "ValidationError" -> Response(501, "5.5.2", "Invalid message format or parameters")
          [] n = "InvalidEmailFormat" -> Response(501, "5.1.3", "Invalid email address syntax")
          [] n = "InvalidInboxId" -> Response(553, "5.1.3", "Invalid mailbox name")
          [] n = "MissingRequiredField" -> Response(501, "5.5.2", "Required field missing")
          [] n = "InvalidHeaderFormat" -> Response(501, "5.6.0", "Invalid message header format")
          [] n = "NotFoundError" -> Response(550, "5.1.1", "Mailbox not found")
          [] n = "InboxNotFound" -> Response(550, "5.1.1", "Mailbox does not exist")
          [] n = "RecipientNotFound" -> Response(556, "5.1.1", "Recipient address rejected")
          [] n = "ThreadNotFound" -> Response(554, "5.1.1", "Referenced thread not found")
          [] n = "MessageNotFound" -> Response(554, "5.1.1", "Referenced message not found")
          [] n = "AttachmentNotFound" -> Response(554, "5.1.1", "Referenced attachment not found")
          [] n = "AuthenticationRequired" -> Response(530, "5.7.0", "Authentication required")
          [] n = "AuthenticationFailed" -> Response(535, "5.7.8", "Authentication credentials invalid")
          [] n = "ApiKeyInvalid" -> Response(535, "5.7.8", "Authentication credentials invalid")
          [] n = "ApiKeyRevoked" -> Response(535, "5.7.8", "Authentication credentials invalid")
          [] n = "ApiKeyExpired" -> Response(535, "5.7.8", "Authentication credentials invalid")
          [] n = "InsufficientPermissions" -> Response(535, "5.7.8", "Insufficient permissions for SMTP")
          [] n = "RateLimitError" -> Response(450, "4.7.1", "Rate limit exceeded, try again later")
          [] n = "TooManyConnections" -> Response(421, "4.7.0", "Too many connections from your IP")
          [] n = "TooManyAuthAttempts" -> Response(454, "4.7.0", "Too many authentication attempts")
          [] n = "DailyLimitExceeded" -> Response(450, "4.7.1", "Daily sending limit exceeded")
          [] n = "LimitExceededError" -> Response(552, "5.2.3", "Message size exceeds limit")
          [] n = "MessageTooLarge" -> Response(552, "5.2.3", "Message size exceeds maximum allowed")
          [] n = "TooManyRecipients" -> Response(452, "4.5.3", "Too many recipients")
          [] n = "TooManyAttachments" -> Response(552, "5.3.4", "Too many attachments")
          [] n = "AttachmentTooLarge" -> Response(552, "5.2.3", "Attachment size exceeds limit")
          [] n = "QuotaExceeded" -> Response(452, "4.2.2", "Mailbox quota exceeded")
          [] n = "MessageRejectedError" -> Response(554, "5.7.1", "Message rejected by policy")
          [] n = "SpamDetected" -> Response(554, "5.7.1", "Message rejected as spam")
          [] n = "VirusDetected" -> Response(554, "5.7.1", "Message rejected - virus detected")
          [] n = "PolicyViolation" -> Response(554, "5.7.1", "Message rejected by policy")
          [] n = "ContentFiltered" -> Response(554, "5.7.1", "Message content rejected by filter")
          [] n = "BlacklistedSender" -> Response(554, "5.7.1", "Sender address blacklisted")
          [] n = "DomainNotVerifiedError" -> Response(550, "5.1.8", "Sender domain not verified")
          [] n = "SenderNotAuthorized" -> Response(550, "5.1.0", "Sender address not authorized for this mailbox")
          [] n = "RelayDenied" -> Response(550, "5.7.1", "Relaying denied")
          [] n = "InvalidSenderDomain" -> Response(553, "5.1.8", "Invalid sender domain")
          [] n = "AlreadyExistsError" -> Response(554, "5.0.0", "Resource already exists")
          [] n = "RaceConditionError" -> Response(451, "4.0.0", "Temporary conflict, please retry")
          [] n = "InboxDisabled" -> Response(550, "5.2.1", "Mailbox disabled")
          [] n = "InboxSuspended" -> Response(550, "5.2.1", "Account suspended")
          [] n = "OrganizationSuspended" -> Response(550, "5.2.1", "Organization account suspended")
          [] n = "TLSRequired" -> Response(538, "5.7.11", "Encryption required for this operation")
          [] n = "WeakAuthentication" -> Response(534, "5.7.9", "Authentication mechanism too weak")
          [] n = "CertificateError" -> Response(538, "5.7.11", "TLS certificate verification failed")
          [] n = "ServerError" -> Response(451, "4.3.0", "Temporary system error, please retry")
          [] n = "DatabaseError" -> Response(451, "4.3.0", "Temporary error, please retry")
          [] n = "TimeoutError" -> Response(451, "4.4.1", "Connection timeout")
          [] n = "ServiceUnavailable" -> Response(421, "4.3.0", "Service temporarily unavailable")
          [] n = "UpstreamError" -> Response(451, "4.4.1", "Upstream service error")]

mapToSMTPError(error) ==
    IF error.name \in DOMAIN ERROR_MAPPINGS
    THEN ERROR_MAPPINGS[error.name]
    ELSE IF "not found" \in error.contains \/ "does not exist" \in error.contains
    THEN createSMTPError(550, "5.1.1", "Requested resource not found")
    ELSE IF "rate limit" \in error.contains \/ "too many" \in error.contains
    THEN createSMTPError(450, "4.7.1", "Rate limit exceeded")
    ELSE IF "auth" \in error.contains \/ "credential" \in error.contains
    THEN createSMTPError(535, "5.7.8", "Authentication failed")
    ELSE IF "size" \in error.contains \/ "large" \in error.contains
    THEN createSMTPError(552, "5.2.3", "Message too large")
    ELSE IF "invalid" \in error.contains \/ "format" \in error.contains
    THEN createSMTPError(501, "5.5.2", "Invalid parameter")
    ELSE IF "timeout" \in error.contains
    THEN createSMTPError(451, "4.4.1", "Timeout occurred")
    ELSE IF "rejected" \in error.contains \/ "denied" \in error.contains
    THEN createSMTPError(554, "5.7.1", "Message rejected")
    ELSE createSMTPError(451, "4.3.0", "Temporary failure, please retry")

\* ------------------------------------------------------------------------
\* Bounds of the model
\* ------------------------------------------------------------------------
\* recipients a client offers in one transaction
MaxRcpts == 2
\* messages a client submits on one connection
MaxMessages == 2
\* steps the clock takes
MaxTicks == 1

\* the connection the transport opens, named by its session id
SessionIds == {"sess_1"}
Hostnames == {Some("test.example.com")}
Senders == {"sender@agentmail.dev", "other@agentmail.dev"}
Recipients == {"first@example.com"}
MessageIds == {"msg_1"}
\* a step of the clock: just past the session timeout
TickStep == SESSION_TIMEOUT_MS + 1
MaxClock == StartTime + MaxTicks * TickStep

\* exceptions raised while a message is parsed, transformed and validated
E_PARSE == Thrown(FALSE, "Error", 0, "Unexpected end of MIME data", {})
E_INVALID == Thrown(FALSE, "Error", 0, "Invalid email address: first", {"Invalid", "invalid"})
E_REQUIRED == Thrown(FALSE, "Error", 0, "At least one recipient (to) is required", {})
E_NOUSER == Thrown(FALSE, "TypeError", 0, "Cannot read properties of undefined", {})
ProcessingErrors == {E_PARSE, E_INVALID, E_REQUIRED}
\* HTTP statuses the submission API answers with when it fails
FailureStatuses == {403, 429, 500, 418}
ApiError(h) == Thrown(TRUE, "SMTPAgentMailError", h, "API error", {})

\* ------------------------------------------------------------------------
\* State
\* ------------------------------------------------------------------------
VARIABLES
    store,       \* SessionManager.sessions: the ids that are keys of the map
    heap,        \* the session object of each id (it outlives its deletion
                 \* from the map while a handler still holds a reference)
    conn,        \* the transport's connection: "none", "open", "closed"
    pend,        \* the hook invocations that are awaiting, per connection
    last,        \* the latest reply a hook gave on the connection
    now,         \* the clock (Date.now())
    submits,     \* sendMessage calls started, per connection
    authFailed,  \* connections that have had an AUTH rejected by the pipeline
    keyTable,    \* the credential store: API keys
    inboxTable   \* the credential store: inboxes

vars == <<store, heap, conn, pend, last, now, submits, authFailed, keyTable, inboxTable>>

\* SessionManager.getSession
getSession(sessionId) == IF sessionId \in store THEN heap[sessionId] ELSE NULL

\* a reply: the command, "pending" / "accepted" / "rejected", the response
\* line, and for AUTH the attempt (inputs, faults, pipeline result)
Reply(cmd, status, resp, auth) ==
    [cmd |-> cmd, status |-> status, resp |-> resp, auth |-> auth]
NoReply == Reply("NONE", "accepted", NULL, NULL)
\* variant of a rejecting path that returns without calling the callback
Rejected_noCallback(cmd, resp) == Reply(cmd, "pending", NULL, NULL)
Rejected(cmd, resp) == Reply(cmd, "rejected", Some(resp), NULL)
Accepted(cmd, resp) == Reply(cmd, "accepted", Some(resp), NULL)
Pending(cmd) == Reply(cmd, "pending", NULL, NULL)

SessionError == createSMTPError(LOCAL_ERROR, "4.3.0", "Session error")
BadSequence == createSMTPError(BAD_SEQUENCE, "5.5.1", "Bad sequence of commands")

Init ==
    /\ store = {}
    /\ heap = [s \in SessionIds |-> NULL]
    /\ conn = [s \in SessionIds |-> "none"]
    /\ pend = [s \in SessionIds |-> {}]
    /\ last = [s \in SessionIds |-> NoReply]
    /\ now = StartTime
    /\ submits = [s \in SessionIds |-> 0]
    /\ authFailed = {}
    /\ keyTable = MOCK_API_KEYS
    /\ inboxTable = MOCK_INBOXES

\* ------------------------------------------------------------------------
\* server.ts: the smtp-server hooks
\* ------------------------------------------------------------------------
\* onConnect: createSession, then handleHello
OnConnect(s, hostname) ==
    /\ conn[s] = "none"
    /\ LET created == createEmptySession(s, [remoteAddress |-> "127.0.0.1",
                                             clientHostname |-> hostname], now)
           greeted == handleHello(Some(created), hostname, now)
       IN /\ store' = store \cup {s}
          /\ heap' = [heap EXCEPT ![s] = greeted.sess]
    /\ conn' = [conn EXCEPT ![s] = "open"]
    /\ last' = [last EXCEPT ![s] = NoReply]
    /\ UNCHANGED <<pend, now, submits, authFailed, keyTable, inboxTable>>

\* onAuth up to the await of validateSMTPCredentials
OnAuthBegin(s, username, password) ==
    /\ conn[s] = "open"
    /\ pend[s] = {}
    /\ LET smtpSession == getSession(s) IN
       IF smtpSession = NULL
       THEN /\ last' = [last EXCEPT ![s] = Rejected("AUTH", SessionError)]
            /\ UNCHANGED <<heap, pend>>
       ELSE LET touched == updateActivity(smtpSession, now) IN
            /\ heap' = [heap EXCEPT ![s] = touched]
            /\ IF ~canExecuteCommand(touched, "AUTH")
               THEN /\ last' = [last EXCEPT ![s] = Rejected("AUTH", BadSequence)]
                    /\ UNCHANGED pend
               ELSE /\ pend' = [pend EXCEPT ![s] = {[kind |-> "AUTH", username |-> username,
                                                    password |-> password, pre |-> smtpSession]}]
                    /\ last' = [last EXCEPT ![s] = Pending("AUTH")]
    /\ UNCHANGED <<store, conn, now, submits, authFailed, keyTable, inboxTable>>

\* the user onAuth stores: the identity plus the API key (auth.password)
SessionUser(user, password) ==
    [inbox_id |-> user.inbox_id,
     organization_id |-> user.organization_id,
     email_address |-> user.email_address,
     api_key_id |-> user.api_key_id,
     api_key |-> password]

AuthSuccessful == Response(235, "2.7.0", "Authentication successful")

\* onAuth from the return of validateSMTPCredentials to the callback
OnAuthEnd(s, keyFault, inboxFault) ==
    \E p \in pend[s] :
        /\ p.kind = "AUTH"
        /\ LET result == validateSMTPCredentials(p.username, p.password, keyTable, inboxTable,
                                                 keyFault, inboxFault, now)
               attempt == Some([username |-> p.username, password |-> p.password,
                                keyFault |-> keyFault, inboxFault |-> inboxFault,
                                result |-> result])
           IN IF result.threw
              THEN /\ last' = [last EXCEPT ![s] =
                          Reply("AUTH", "rejected",
                                Some(createSMTPAuthError(AUTH_ERRORS["SERVICE_UNAVAILABLE"])),
                                attempt)]
                   /\ authFailed' = authFailed \cup {s}
                   /\ UNCHANGED heap
              ELSE IF ~result.success
              THEN /\ last' = [last EXCEPT ![s] =
                          Reply("AUTH", "rejected", Some(createSMTPAuthError(Val(result.error))),
                                attempt)]
                   /\ authFailed' = authFailed \cup {s}
                   /\ UNCHANGED heap
              ELSE LET r == handleAuthentication(getSession(s),
                                                 SessionUser(Val(result.user), p.password), now)
                   IN /\ heap' = IF s \in store THEN [heap EXCEPT ![s] = r.sess] ELSE heap
                      /\ last' = [last EXCEPT ![s] =
                             Reply("AUTH", "accepted", Some(AuthSuccessful), attempt)]
                      /\ UNCHANGED authFailed
        /\ pend' = [pend EXCEPT ![s] = @ \ {p}]
        /\ UNCHANGED <<store, conn, now, submits, keyTable, inboxTable>>

\* variant of onMailFrom without the authentication check
OnMailFrom_noAuthCheck(s, address) ==
    /\ conn[s] = "open"
    /\ pend[s] = {}
    /\ LET smtpSession == getSession(s) IN
       IF smtpSession = NULL
       THEN /\ last' = [last EXCEPT ![s] = Rejected("MAIL", SessionError)]
            /\ UNCHANGED heap
       ELSE LET touched == updateActivity(smtpSession, now)
                fresh == IF Val(touched).state = "COMPLETED"
                         THEN resetForNewMessage(touched, now)
                         ELSE touched
            IN IF ~canExecuteCommand(fresh, "MAIL")
               THEN /\ heap' = [heap EXCEPT ![s] = fresh]
                    /\ last' = [last EXCEPT ![s] = Rejected("MAIL", BadSequence)]
               ELSE LET updated == handleMailFrom(fresh, address, now) IN
                    /\ heap' = [heap EXCEPT ![s] = updated.sess]
                    /\ last' = [last EXCEPT ![s] =
                           IF updated.ret = NULL
                           THEN Rejected("MAIL", BadSequence)
                           ELSE Accepted("MAIL", Response(250, "2.1.0", "Sender OK"))]
    /\ UNCHANGED <<store, conn, pend, now, submits, authFailed, keyTable, inboxTable>>

\* onMailFrom
OnMailFrom(s, address) ==
    /\ conn[s] = "open"
    /\ pend[s] = {}
    /\ LET smtpSession == getSession(s) IN
       IF smtpSession = NULL
       THEN /\ last' = [last EXCEPT ![s] = Rejected("MAIL", SessionError)]
            /\ UNCHANGED heap
       ELSE LET touched == updateActivity(smtpSession, now) IN
            IF ~Val(touched).authenticated
            THEN /\ heap' = [heap EXCEPT ![s] = touched]
                 /\ last' = [last EXCEPT ![s] = Rejected("MAIL",
                        createSMTPError(AUTH_REQUIRED, "5.7.0", "Authentication required"))]
            ELSE LET fresh == IF Val(touched).state = "COMPLETED"
                              THEN resetForNewMessage(touched, now)
                              ELSE touched
                 IN IF ~canExecuteCommand(fresh, "MAIL")
                    THEN /\ heap' = [heap EXCEPT ![s] = fresh]
                         /\ last' = [last EXCEPT ![s] = Rejected("MAIL", BadSequence)]
                    ELSE LET updated == handleMailFrom(fresh, address, now) IN
                         /\ heap' = [heap EXCEPT ![s] = updated.sess]
                         /\ last' = [last EXCEPT ![s] =
                                IF updated.ret = NULL
                                THEN Rejected("MAIL", BadSequence)
                                ELSE Accepted("MAIL", Response(250, "2.1.0", "Sender OK"))]
    /\ UNCHANGED <<store, conn, pend, now, submits, authFailed, keyTable, inboxTable>>

\* the literal 50 that onRcptTo compares the recipient count with
RCPT_LIMIT_CHECK == 50

\* the client offers at most MaxRcpts recipients in one transaction
RcptWithinBound(s) ==
    canExecuteCommand(getSession(s), "RCPT") => Len(Val(getSession(s)).rcptTo) < MaxRcpts

\* onRcptTo
OnRcptTo(s, address) ==
    /\ conn[s] = "open"
    /\ pend[s] = {}
    /\ LET smtpSession == getSession(s) IN
       IF smtpSession = NULL
       THEN /\ last' = [last EXCEPT ![s] = Rejected("RCPT", SessionError)]
            /\ UNCHANGED heap
       ELSE LET touched == updateActivity(smtpSession, now) IN
            /\ IF ~canExecuteCommand(touched, "RCPT")
               THEN /\ heap' = [heap EXCEPT ![s] = touched]
                    /\ last' = [last EXCEPT ![s] = Rejected("RCPT", BadSequence)]
               ELSE LET updated == handleRcptTo(touched, address, now) IN
                    /\ heap' = [heap EXCEPT ![s] = updated.sess]
                    /\ last' = [last EXCEPT ![s] =
                           IF updated.ret = NULL
                           THEN IF Len(Val(updated.sess).rcptTo) >= RCPT_LIMIT_CHECK
                                THEN Rejected("RCPT", createSMTPError(INSUFFICIENT_STORAGE,
                                                  "4.5.3", "Too many recipients"))
                                ELSE Rejected("RCPT", BadSequence)
                           ELSE Accepted("RCPT", Response(250, "2.1.5", "Recipient OK"))]
    /\ UNCHANGED <<store, conn, pend, now, submits, authFailed, keyTable, inboxTable>>

\* onData up to the await of simpleParser
OnDataBegin(s) ==
    /\ conn[s] = "open"
    /\ pend[s] = {}
    /\ LET smtpSession == getSession(s) IN
       IF smtpSession = NULL
       THEN /\ last' = [last EXCEPT ![s] = Rejected("DATA", SessionError)]
            /\ UNCHANGED <<heap, pend>>
       ELSE LET touched == updateActivity(smtpSession, now) IN
            /\ canExecuteCommand(touched, "DATA") => Val(touched).messageCount < MaxMessages
            /\ IF ~canExecuteCommand(touched, "DATA")
               THEN /\ heap' = [heap EXCEPT ![s] = touched]
                    /\ last' = [last EXCEPT ![s] = Rejected("DATA", BadSequence)]
                    /\ UNCHANGED pend
               ELSE IF Len(Val(touched).rcptTo) = 0
               THEN /\ heap' = [heap EXCEPT ![s] = touched]
                    /\ last' = [last EXCEPT ![s] = Rejected("DATA",
                           createSMTPError(BAD_SEQUENCE, "5.5.1", "No recipients specified"))]
                    /\ UNCHANGED pend
               ELSE /\ heap' = [heap EXCEPT ![s] = handleDataStart(touched, now).sess]
                    /\ pend' = [pend EXCEPT ![s] = {[kind |-> "DATA", stage |-> "PARSE",
                                                    pre |-> smtpSession]}]
                    /\ last' = [last EXCEPT ![s] = Pending("DATA")]
    /\ UNCHANGED <<store, conn, now, submits, authFailed, keyTable, inboxTable>>

\* the catch block of onData
onDataCatch(error) ==
    IF error.api
    THEN createSMTPError(mapHttpToSmtp(error.httpStatus).smtpCode,
                         mapHttpToSmtp(error.httpStatus).enhancedCode,
                         mapHttpToSmtp(error.httpStatus).message)
    ELSE IF "Invalid" \in error.contains
    THEN createSMTPError(MAILBOX_NOT_FOUND, "5.1.1", error.message)
    ELSE mapToSMTPError(error)

\* onData from the return of simpleParser to the call of sendMessage:
\* the parse, the transformation (it reads smtpSession.user of the object
\* the hook holds) or the validation throws, or the submission is started
OnDataParsed(s, outcome) ==
    \E p \in pend[s] :
        /\ p.kind = "DATA"
        /\ p.stage = "PARSE"
        /\ LET thrown == IF outcome # NULL THEN outcome
                         ELSE IF Val(heap[s]).user = NULL THEN Some(E_NOUSER)
                         ELSE NULL
           IN IF thrown # NULL
              THEN /\ last' = [last EXCEPT ![s] = Rejected("DATA", onDataCatch(Val(thrown)))]
                   /\ pend' = [pend EXCEPT ![s] = @ \ {p}]
                   /\ UNCHANGED submits
              ELSE /\ pend' = [pend EXCEPT ![s] = (@ \ {p}) \cup {[p EXCEPT !.stage = "SEND"]}]
                   /\ submits' = [submits EXCEPT ![s] = @ + 1]
                   /\ UNCHANGED last
        /\ UNCHANGED <<store, heap, conn, now, authFailed, keyTable, inboxTable>>

MessageQueued(messageId) == Response(250, "2.0.0", "Message queued as " \o messageId)

\* onData from the return of sendMessage to the callback
OnDataEnd(s, outcome) ==
    \E p \in pend[s] :
        /\ p.kind = "DATA"
        /\ p.stage = "SEND"
        /\ IF outcome.ok
           THEN LET r == handleDataComplete(getSession(s), outcome.messageId, now) IN
                /\ heap' = IF s \in store THEN [heap EXCEPT ![s] = r.sess] ELSE heap
                /\ last' = [last EXCEPT ![s] =
                       Accepted("DATA", MessageQueued(outcome.messageId))]
           ELSE /\ last' = [last EXCEPT ![s] =
                       Rejected("DATA", onDataCatch(ApiError(outcome.httpStatus)))]
                /\ UNCHANGED heap
        /\ pend' = [pend EXCEPT ![s] = @ \ {p}]
        /\ UNCHANGED <<store, conn, now, submits, authFailed, keyTable, inboxTable>>

SendOutcomes ==
    {[ok |-> TRUE, messageId |-> m, httpStatus |-> 200] : m \in MessageIds}
    \cup {[ok |-> FALSE, messageId |-> "", httpStatus |-> h] : h \in FailureStatuses}

\* onClose: deleteSession
OnClose(s) ==
    /\ conn[s] = "open"
    /\ store' = deleteSession(store, s).ids
    /\ conn' = [conn EXCEPT ![s] = "closed"]
    /\ UNCHANGED <<heap, pend, last, now, submits, authFailed, keyTable, inboxTable>>

\* the cleanup timer's callback: cleanupExpiredSessions
\* variant whose sweep passes over the sessions that are authenticated
Cleanup_unauthenticatedOnly ==
    /\ store' = {s \in store :
                    \/ s \in cleanupExpiredSessions(store, [r \in store |-> Val(heap[r])], now).ids
                    \/ Val(heap[s]).authenticated}
    /\ UNCHANGED <<heap, conn, pend, last, now, submits, authFailed, keyTable, inboxTable>>

\* variant whose sweep empties the map as soon as one session has expired
Cleanup_clears ==
    /\ store' = IF cleanupExpiredSessions(store, [s \in store |-> Val(heap[s])], now).ret > 0
                THEN {}
                ELSE store
    /\ UNCHANGED <<heap, conn, pend, last, now, submits, authFailed, keyTable, inboxTable>>

Cleanup ==
    /\ store' = cleanupExpiredSessions(store, [s \in store |-> Val(heap[s])], now).ids
    /\ UNCHANGED <<heap, conn, pend, last, now, submits, authFailed, keyTable, inboxTable>>

\* time passes
Tick(d) ==
    /\ now + d <= MaxClock
    /\ now' = now + d
    /\ UNCHANGED <<store, heap, conn, pend, last, submits, authFailed, keyTable, inboxTable>>

\* credentials of the test scenarios that the hooks are driven with
ScenarioUsernames == {U_VALID, U_SUSPENDED, U_SHORT}
ScenarioPasswords == {P_VALID, P_NOSCOPE, P_SHORT}

Next ==
    \/ \E s \in SessionIds, h \in Hostnames : OnConnect(s, h)
    \/ \E s \in SessionIds, u \in ScenarioUsernames, p \in ScenarioPasswords : OnAuthBegin(s, u, p)
    \/ \E s \in SessionIds, kf \in BOOLEAN, inf \in BOOLEAN : OnAuthEnd(s, kf, inf)
    \/ \E s \in SessionIds, a \in Senders : OnMailFrom(s, a)
    \/ \E s \in SessionIds, a \in Recipients : RcptWithinBound(s) /\ OnRcptTo(s, a)
    \/ \E s \in SessionIds : OnDataBegin(s)
    \/ \E s \in SessionIds, e \in {NULL} \cup {Some(x) : x \in ProcessingErrors} : OnDataParsed(s, e)
    \/ \E s \in SessionIds, r \in SendOutcomes : OnDataEnd(s, r)
    \/ \E s \in SessionIds : OnClose(s)
    \/ Cleanup
    \/ Tick(TickStep)

Spec == Init /\ [][Next]_vars

\* ------------------------------------------------------------------------
\* The authentication subsystem on its own: one connection, AUTH attempts
\* against every content of the credential store
\* ------------------------------------------------------------------------
Orgs == {"org_abc", "org_xyz"}
KeyRecords ==
    {MockApiKey("key_1", org, revoked, expires, scopes) :
        org \in Orgs,
        revoked \in {NULL, Some(T_2024_12_01)},
        expires \in {NULL, Some(StartTime - 1), Some(StartTime), Some(StartTime + 1)},
        scopes \in {Some({SMTP_SEND, "messages:read"}), Some({"messages:read"}), NULL}}
InboxRecords ==
    {MockInbox("inb_1", "one@agentmail.dev", org, status) :
        org \in Orgs, status \in {"active", "disabled", "suspended"}}

\* the store holds at most one key (under P_VALID) and one inbox
KeyTables == {<<>>} \cup {P_VALID :> k : k \in KeyRecords}
InboxTables == {<<>>} \cup {u :> i : u \in {U_VALID, U_EMAIL}, i \in InboxRecords}

\* against the mock data every username and password is tried; against
\* the other store contents one of each kind
PipelineUsernames == {EMPTY, U_VALID, U_EMAIL, U_NOTEXIST, U_SHORT}
PipelinePasswords == {EMPTY, P_VALID, P_NOTEXIST, P_SHORT}
UsernamesFor(keys) == IF keys = MOCK_API_KEYS THEN Usernames ELSE PipelineUsernames
PasswordsFor(keys) == IF keys = MOCK_API_KEYS THEN Passwords ELSE PipelinePasswords

InitAuth ==
    /\ store = {}
    /\ heap = [s \in SessionIds |-> NULL]
    /\ conn = [s \in SessionIds |-> "none"]
    /\ pend = [s \in SessionIds |-> {}]
    /\ last = [s \in SessionIds |-> NoReply]
    /\ now = StartTime
    /\ submits = [s \in SessionIds |-> 0]
    /\ authFailed = {}
    /\ \/ keyTable = MOCK_API_KEYS /\ inboxTable = MOCK_INBOXES
       \/ keyTable \in KeyTables /\ inboxTable \in InboxTables

NextAuth ==
    \/ \E s \in SessionIds, h \in Hostnames : OnConnect(s, h)
    \/ \E s \in SessionIds, u \in UsernamesFor(keyTable), p \in PasswordsFor(keyTable) :
          OnAuthBegin(s, u, p)
    \/ \E s \in SessionIds, kf \in BOOLEAN, inf \in BOOLEAN : OnAuthEnd(s, kf, inf)
    \/ \E s \in SessionIds : OnClose(s)

SpecAuth == InitAuth /\ [][NextAuth]_vars

\* ------------------------------------------------------------------------
\* The SessionManager on its own: its methods called in any order
\* ------------------------------------------------------------------------
\* transitions recorded for one session
MaxHistory == 7

Users == {SessionUser(Val(AuthSuccess(MOCK_INBOXES[U_VALID], MOCK_API_KEYS[P_VALID], <<>>).user),
                      P_VALID)}

\* a method call on session s that returned r
MgrCall(s, method, r) ==
    /\ heap' = IF s \in store THEN [heap EXCEPT ![s] = r.sess] ELSE heap
    /\ last' = [last EXCEPT ![s] =
           Reply(method, IF r.ret = NULL THEN "rejected" ELSE "accepted", NULL, NULL)]
    /\ UNCHANGED <<store, conn, pend, now, submits, authFailed, keyTable, inboxTable>>

\* the model stops calling once MaxHistory transitions are recorded
Callable(s) ==
    /\ conn[s] = "open"
    /\ getSession(s) # NULL => Len(Val(getSession(s)).stateHistory) < MaxHistory

MgrCreateSession(s, hostname) ==
    /\ conn[s] = "none"
    /\ store' = store \cup {s}
    /\ heap' = [heap EXCEPT ![s] = Some(createEmptySession(s,
                   [remoteAddress |-> "127.0.0.1", clientHostname |-> hostname], now))]
    /\ conn' = [conn EXCEPT ![s] = "open"]
    /\ UNCHANGED <<pend, last, now, submits, authFailed, keyTable, inboxTable>>

MgrDeleteSession(s) ==
    /\ conn[s] = "open"
    /\ s \in store
    /\ store' = deleteSession(store, s).ids
    /\ UNCHANGED <<heap, conn, pend, last, now, submits, authFailed, keyTable, inboxTable>>

MgrHello(s, hostname) ==
    Callable(s) /\ MgrCall(s, "handleHello", handleHello(getSession(s), hostname, now))

MgrAuthentication(s, user) ==
    Callable(s) /\ MgrCall(s, "handleAuthentication", handleAuthentication(getSession(s), user, now))

MgrMailFrom(s, address) ==
    Callable(s) /\ MgrCall(s, "handleMailFrom", handleMailFrom(getSession(s), address, now))

MgrRcptTo(s, address) ==
    /\ Callable(s)
    /\ getSession(s) # NULL => Len(Val(getSession(s)).rcptTo) < MaxRcpts
    /\ MgrCall(s, "handleRcptTo", handleRcptTo(getSession(s), address, now))

MgrDataStart(s) ==
    Callable(s) /\ MgrCall(s, "handleDataStart", handleDataStart(getSession(s), now))

MgrDataComplete(s, messageId) ==
    Callable(s) /\ MgrCall(s, "handleDataComplete",
                           handleDataComplete(getSession(s), messageId, now))

MgrResetForNewMessage(s) ==
    /\ Callable(s)
    /\ MgrCall(s, "resetForNewMessage",
               Ret(resetForNewMessage(getSession(s), now), resetForNewMessage(getSession(s), now)))

NextSM ==
    \/ \E s \in SessionIds, h \in Hostnames \cup {NULL} : MgrCreateSession(s, h)
    \/ \E s \in SessionIds : MgrDeleteSession(s)
    \/ \E s \in SessionIds, h \in Hostnames \cup {NULL} : MgrHello(s, h)
    \/ \E s \in SessionIds, user \in Users : MgrAuthentication(s, user)
    \/ \E s \in SessionIds, a \in Senders : MgrMailFrom(s, a)
    \/ \E s \in SessionIds, a \in Recipients : MgrRcptTo(s, a)
    \/ \E s \in SessionIds : MgrDataStart(s)
    \/ \E s \in SessionIds, m \in MessageIds : MgrDataComplete(s, m)
    \/ \E s \in SessionIds : MgrResetForNewMessage(s)

SpecSM == Init /\ [][NextSM]_vars

\* the same methods called at different times
NextSMClock ==
    \/ \E s \in SessionIds, h \in Hostnames : MgrCreateSession(s, h)
    \/ \E s \in SessionIds, h \in Hostnames : MgrHello(s, h)
    \/ \E s \in SessionIds, user \in Users : MgrAuthentication(s, user)
    \/ \E s \in SessionIds, a \in Senders : MgrMailFrom(s, a)
    \/ \E s \in SessionIds, a \in Recipients : MgrRcptTo(s, a)
    \/ \E s \in SessionIds : MgrDataStart(s)
    \/ \E s \in SessionIds, m \in MessageIds : MgrDataComplete(s, m)
    \/ Tick(TickStep)

SpecSMClock == Init /\ [][NextSMClock]_vars

\* ------------------------------------------------------------------------
\* The pure helpers on their own: each call is recorded as a reply whose cmd
\* is the function's name, resp its result and auth its arguments
\* ------------------------------------------------------------------------
MaxHttpStatus == 609
HttpStatuses == 0 .. MaxHttpStatus
ClientCommands == {"EHLO", "HELO", "AUTH", "MAIL", "RCPT", "DATA"}

CallMapHttpToSmtp(httpStatus) ==
    /\ last' = [s \in SessionIds |->
           Reply("mapHttpToSmtp", "accepted", Some(mapHttpToSmtp(httpStatus)), Some(httpStatus))]
    /\ UNCHANGED <<store, heap, conn, pend, now, submits, authFailed, keyTable, inboxTable>>

CallIsRetryableHttpStatus(httpStatus) ==
    /\ last' = [s \in SessionIds |->
           Reply("isRetryableHttpStatus", "accepted", Some(isRetryableHttpStatus(httpStatus)),
                 Some(httpStatus))]
    /\ UNCHANGED <<store, heap, conn, pend, now, submits, authFailed, keyTable, inboxTable>>

CallCanExecuteCommandInState(state, command) ==
    /\ last' = [s \in SessionIds |->
           Reply("canExecuteCommandInState", "accepted",
                 Some(canExecuteCommandInState(state, command)), Some(<<state, command>>))]
    /\ UNCHANGED <<store, heap, conn, pend, now, submits, authFailed, keyTable, inboxTable>>

CallGetNextState(currentState, command) ==
    /\ last' = [s \in SessionIds |->
           Reply("getNextState", "accepted",
                 Some(getNextState(currentState, command)), Some(<<currentState, command>>))]
    /\ UNCHANGED <<store, heap, conn, pend, now, submits, authFailed, keyTable, inboxTable>>

NextPure ==
    \/ \E h \in HttpStatuses : CallMapHttpToSmtp(h)
    \/ \E h \in HttpStatuses : CallIsRetryableHttpStatus(h)
    \/ \E st \in SMTPSessionState, c \in ClientCommands : CallCanExecuteCommandInState(st, c)
    \/ \E st \in SMTPSessionState, c \in ClientCommands : CallGetNextState(st, c)

SpecPure == Init /\ [][NextPure]_vars



\* ------------------------------------------------------------------------
\* The hooks with AUTH commands that overlap: a client that does not wait
\* for the reply sends another AUTH while one is awaiting the pipeline
\* ------------------------------------------------------------------------
\* AUTH invocations awaiting at once on one connection
MaxOverlap == 2

\* a second active inbox of the same organization, so that two attempts
\* can succeed with different identities
TWO_INBOXES ==
    MOCK_INBOXES @@ (U_EMAIL :> MockInbox("inb_email2345678901", "jolly16@agentmail.to",
                                          "org_abc", "active"))

OverlapUsernames == {U_VALID, U_EMAIL}
OverlapPasswords == {P_VALID, P_SHORT}

\* onAuth up to the await, invoked while other AUTH invocations await
OnAuthOverlapping(s, username, password) ==
    /\ conn[s] = "open"
    /\ pend[s] # {}
    /\ \A q \in pend[s] : q.kind = "AUTH"
    /\ Cardinality(pend[s]) < MaxOverlap
    /\ LET smtpSession == getSession(s) IN
       IF smtpSession = NULL
       THEN /\ last' = [last EXCEPT ![s] = Rejected("AUTH", SessionError)]
            /\ UNCHANGED <<heap, pend>>
       ELSE LET touched == updateActivity(smtpSession, now) IN
            /\ heap' = [heap EXCEPT ![s] = touched]
            /\ IF ~canExecuteCommand(touched, "AUTH")
               THEN /\ last' = [last EXCEPT ![s] = Rejected("AUTH", BadSequence)]
                    /\ UNCHANGED pend
               ELSE /\ pend' = [pend EXCEPT ![s] = @ \cup {[kind |-> "AUTH",
                                   username |-> username, password |-> password,
                                   pre |-> smtpSession]}]
                    /\ last' = [last EXCEPT ![s] = Pending("AUTH")]
    /\ UNCHANGED <<store, conn, now, submits, authFailed, keyTable, inboxTable>>

InitOverlap ==
    /\ store = {}
    /\ heap = [s \in SessionIds |-> NULL]
    /\ conn = [s \in SessionIds |-> "none"]
    /\ pend = [s \in SessionIds |-> {}]
    /\ last = [s \in SessionIds |-> NoReply]
    /\ now = StartTime
    /\ submits = [s \in SessionIds |-> 0]
    /\ authFailed = {}
    /\ keyTable = MOCK_API_KEYS
    /\ inboxTable = TWO_INBOXES

NextOverlap ==
    \/ \E s \in SessionIds, h \in Hostnames : OnConnect(s, h)
    \/ \E s \in SessionIds, u \in OverlapUsernames, p \in OverlapPasswords : OnAuthBegin(s, u, p)
    \/ \E s \in SessionIds, u \in OverlapUsernames, p \in OverlapPasswords :
          OnAuthOverlapping(s, u, p)
    \/ \E s \in SessionIds : OnAuthEnd(s, FALSE, FALSE)
    \/ \E s \in SessionIds, a \in Senders : OnMailFrom(s, a)
    \/ \E s \in SessionIds, a \in Recipients : RcptWithinBound(s) /\ OnRcptTo(s, a)
    \/ \E s \in SessionIds : OnDataBegin(s)
    \/ \E s \in SessionIds : OnDataParsed(s, NULL)
    \/ \E s \in SessionIds, r \in SendOutcomes : OnDataEnd(s, r)
    \/ \E s \in SessionIds : OnClose(s)

SpecOverlap == InitOverlap /\ [][NextOverlap]_vars

\* ------------------------------------------------------------------------
\* The hooks with a client that offers recipients without limit
\* ------------------------------------------------------------------------
NextRcpt ==
    \/ \E s \in SessionIds, h \in Hostnames : OnConnect(s, h)
    \/ \E s \in SessionIds : OnAuthBegin(s, U_VALID, P_VALID)
    \/ \E s \in SessionIds : OnAuthEnd(s, FALSE, FALSE)
    \/ \E s \in SessionIds : OnMailFrom(s, "sender@agentmail.dev")
    \/ \E s \in SessionIds, a \in Recipients : OnRcptTo(s, a)
    \/ \E s \in SessionIds : OnDataBegin(s)
    \/ \E s \in SessionIds : OnDataParsed(s, NULL)
    \/ \E s \in SessionIds, m \in MessageIds :
          OnDataEnd(s, [ok |-> TRUE, messageId |-> m, httpStatus |-> 200])

SpecRcpt == Init /\ [][NextRcpt]_vars

\* ------------------------------------------------------------------------
\* The reaper among several connections: sweeps, disconnects and commands
\* of different sessions in any order, on a clock that passes through the
\* instants around the session timeout
\* ------------------------------------------------------------------------
ReaperIds == {"sess_1", "sess_2"}

\* the instants the clock shows: a start, the millisecond after it, and the
\* same two one timeout later
ReaperTimes ==
    {StartTime + k * SESSION_TIMEOUT_MS + e : k \in 0..MaxTicks, e \in {0, 1}}

InitReaper ==
    /\ store = {}
    /\ heap = [s \in ReaperIds |-> NULL]
    /\ conn = [s \in ReaperIds |-> "none"]
    /\ pend = [s \in ReaperIds |-> {}]
    /\ last = [s \in ReaperIds |-> NoReply]
    /\ now = StartTime
    /\ submits = [s \in ReaperIds |-> 0]
    /\ authFailed = {}
    /\ keyTable = MOCK_API_KEYS
    /\ inboxTable = MOCK_INBOXES

\* the clock moves on to a later instant
TimePasses == \E t \in ReaperTimes : t > now /\ Tick(t - now)

NextReaper ==
    \/ \E s \in ReaperIds, h \in Hostnames : OnConnect(s, h)
    \/ \E s \in ReaperIds : OnAuthBegin(s, U_VALID, P_VALID)
    \/ \E s \in ReaperIds : OnAuthEnd(s, FALSE, FALSE)
    \/ \E s \in ReaperIds : OnClose(s)
    \/ Cleanup
    \/ TimePasses

SpecReaper == InitReaper /\ [][NextReaper]_vars

\* the cleanup timer fires every CLEANUP_INTERVAL_MS for as long as the
\* process runs, and the clock does not stop
SpecReaperLive == SpecReaper /\ WF_vars(Cleanup) /\ WF_vars(TimePasses)

\* one connection whose commands, legal or not, arrive at the instants of
\* ReaperTimes while the sweep runs in between
NextEvict ==
    \/ \E s \in SessionIds, h \in Hostnames : OnConnect(s, h)
    \/ \E s \in SessionIds : OnAuthBegin(s, U_VALID, P_VALID)
    \/ \E s \in SessionIds : OnAuthEnd(s, FALSE, FALSE)
    \/ \E s \in SessionIds, a \in Senders : OnMailFrom(s, a)
    \/ \E s \in SessionIds, a \in Recipients : RcptWithinBound(s) /\ OnRcptTo(s, a)
    \/ \E s \in SessionIds : OnDataBegin(s)
    \/ \E s \in SessionIds : OnDataParsed(s, Some(E_PARSE))
    \/ Cleanup
    \/ TimePasses

SpecEvict == Init /\ [][NextEvict]_vars

\* ------------------------------------------------------------------------
\* AUTH against a credential store whose lookups may not return
\* ------------------------------------------------------------------------
\* await getApiKey(password) / await getInbox(username): the promise of a
\* lookup that the pipeline has reached is never settled. The pipeline
\* reaches its first lookup when both credentials are well formed.
LookupHangs(s) ==
    \E p \in pend[s] :
        /\ p.kind = "AUTH"
        /\ validateInboxIdFormat(p.username)
        /\ validateApiKeyFormat(p.password)
        /\ pend' = [pend EXCEPT ![s] = (@ \ {p}) \cup {[p EXCEPT !.kind = "AUTH_HUNG"]}]
        /\ UNCHANGED <<store, heap, conn, last, now, submits, authFailed, keyTable, inboxTable>>

NextHang ==
    \/ \E s \in SessionIds, h \in Hostnames : OnConnect(s, h)
    \/ \E s \in SessionIds, u \in ScenarioUsernames, p \in ScenarioPasswords : OnAuthBegin(s, u, p)
    \/ \E s \in SessionIds : LookupHangs(s)
    \/ \E s \in SessionIds, kf \in BOOLEAN, inf \in BOOLEAN : OnAuthEnd(s, kf, inf)
    \/ \E s \in SessionIds, a \in Senders : OnMailFrom(s, a)
    \/ \E s \in SessionIds : OnClose(s)
    \/ Cleanup
    \/ Tick(TickStep)

\* a lookup that does return is followed by the rest of onAuth
SpecHang ==
    /\ Init
    /\ [][NextHang]_vars
    /\ \A s \in SessionIds :
          WF_vars(\E kf \in BOOLEAN, inf \in BOOLEAN : OnAuthEnd(s, kf, inf))

\* ========================================================================
\* Properties
\* ========================================================================
\* the fields of a session that a command can change, the activity clock
\* (timestamps.lastActivityAt) left out
Fields(o) ==
    [state |-> Val(o).state, authenticated |-> Val(o).authenticated, user |-> Val(o).user,
     mailFrom |-> Val(o).mailFrom, rcptTo |-> Val(o).rcptTo, messageId |-> Val(o).messageId,
     messageCount |-> Val(o).messageCount, stateHistory |-> Val(o).stateHistory]

\* the AUTH attempt that the latest reply on connection s answers
HasAttempt(s) == last[s].cmd = "AUTH" /\ last[s].auth # NULL
Attempt(s) == Val(last[s].auth)
\* the failure reason of a pipeline result that is a failure
Reason(result) == Val(result.error).code
Failed(result) == ~result.success /\ ~result.threw

SequencingResponse == Response(503, "5.5.1", "Bad sequence of commands")
GenericAuthResponse == Response(535, "5.7.8", "Authentication credentials invalid")
ScopeResponse == Response(535, "5.7.8", "Insufficient permissions for SMTP access")

\* ------------------------------------------------------------------------
\* C1  Anti-enumeration: an AUTH attempt that fails for one of the nine
\* credential / principal / organization reasons gets the same response
\* (code, enhanced code, message) as any other attempt, against the same
\* store, that fails for a reason of that set.
\* ------------------------------------------------------------------------
AntiEnumerationReasons ==
    {"INVALID_API_KEY_FORMAT", "API_KEY_NOT_FOUND", "API_KEY_REVOKED", "API_KEY_EXPIRED",
     "INVALID_INBOX_ID_FORMAT", "INBOX_NOT_FOUND", "INBOX_DISABLED", "INBOX_SUSPENDED",
     "INBOX_ORG_MISMATCH"}

C1_AntiEnumeration ==
    \A s \in SessionIds :
        (HasAttempt(s) /\ Failed(Attempt(s).result)
                       /\ Reason(Attempt(s).result) \in AntiEnumerationReasons) =>
            \A u \in UsernamesFor(keyTable), p \in PasswordsFor(keyTable) :
                LET other == validateSMTPCredentials(u, p, keyTable, inboxTable,
                                                     FALSE, FALSE, now)
                IN (Failed(other) /\ Reason(other) \in AntiEnumerationReasons) =>
                       createSMTPAuthError(Val(other.error)) = Val(last[s].resp)

\* ------------------------------------------------------------------------
\* C2  A command issued through the hooks while the session is not in a
\* legal source state for it is answered 503 5.5.1 'Bad sequence of
\* commands', and state, authenticated, user, mailFrom, rcptTo, messageId,
\* messageCount and stateHistory are what they were before the command.
\* ------------------------------------------------------------------------
LegalSources(cmd) ==
    CASE cmd = "AUTH" -> {"HELLO"}
      [] cmd = "MAIL" -> {"HELLO", "AUTHENTICATED", "COMPLETED"}
      [] cmd = "RCPT" -> {"MAIL_FROM", "RCPT_TO"}
      [] cmd = "DATA" -> {"RCPT_TO"}

IllegalCommand(s, cmd) ==
    /\ s \in store
    /\ Val(heap[s]).state \notin LegalSources(cmd)
    /\ cmd = "MAIL" => Val(heap[s]).authenticated

RejectedUnchanged(s, cmd) ==
    /\ last'[s] = Rejected(cmd, SequencingResponse)
    /\ pend'[s] = {}
    /\ s \in store'
    /\ Fields(heap'[s]) = Fields(heap[s])

C2_IllegalCommandRejected ==
    [][\A s \in SessionIds :
          /\ \A u \in ScenarioUsernames, p \in ScenarioPasswords :
                (IllegalCommand(s, "AUTH") /\ OnAuthBegin(s, u, p)) => RejectedUnchanged(s, "AUTH")
          /\ \A a \in Senders :
                (IllegalCommand(s, "MAIL") /\ OnMailFrom(s, a)) => RejectedUnchanged(s, "MAIL")
          /\ \A a \in Recipients :
                (IllegalCommand(s, "RCPT") /\ OnRcptTo(s, a)) => RejectedUnchanged(s, "RCPT")
          /\ (IllegalCommand(s, "DATA") /\ OnDataBegin(s)) => RejectedUnchanged(s, "DATA")]_vars

\* RCPT was just rejected in AUTHENTICATED (no MAIL yet) and the session
\* still shows its two transitions
C2_Witness ==
    \E s \in store :
        /\ last[s] = Rejected("RCPT", SequencingResponse)
        /\ Val(heap[s]).state = "AUTHENTICATED"
        /\ Val(heap[s]).authenticated
        /\ Len(Val(heap[s]).stateHistory) = 2

\* ------------------------------------------------------------------------
\* C3  After any command the server rejects (an error response of onAuth,
\* onMailFrom, onRcptTo or onData, a DATA whose parsing, validation or
\* submission fails included) the session's protocol state equals the
\* state it had immediately before that command.
\* ------------------------------------------------------------------------
\* the state before the command that a step answers: the state the hook
\* found when it was invoked (an awaiting hook remembers it)
PreCommandState(s) ==
    IF pend[s] # {}
    THEN Val((CHOOSE p \in pend[s] : TRUE).pre).state
    ELSE Val(heap[s]).state

C3_RejectionKeepsState ==
    [][\A s \in SessionIds :
          (last'[s] # last[s] /\ last'[s].status = "rejected" /\ heap[s] # NULL) =>
              Val(heap'[s]).state = PreCommandState(s)]_vars

\* ------------------------------------------------------------------------
\* C4  Transition table of the SessionManager handlers: each succeeds
\* only from its source states and then moves to its target state,
\* handleDataStart only with at least one recipient, handleDataComplete
\* adding exactly 1 to messageCount; from every other state the handler
\* returns null and changes no field of the session.
\* ------------------------------------------------------------------------
HandlerSources(method) ==
    CASE method = "handleHello" -> {"INIT"}
      [] method = "handleAuthentication" -> {"HELLO"}
      [] method = "handleMailFrom" -> {"HELLO", "AUTHENTICATED", "COMPLETED"}
      [] method = "handleRcptTo" -> {"MAIL_FROM", "RCPT_TO"}
      [] method = "handleDataStart" -> {"RCPT_TO"}
      [] method = "handleDataComplete" -> {"DATA"}

HandlerTarget(method) ==
    CASE method = "handleHello" -> "HELLO"
      [] method = "handleAuthentication" -> "AUTHENTICATED"
      [] method = "handleMailFrom" -> "MAIL_FROM"
      [] method = "handleRcptTo" -> "RCPT_TO"
      [] method = "handleDataStart" -> "DATA"
      [] method = "handleDataComplete" -> "COMPLETED"

\* a step that is a call of the handler on session s follows the table
FollowsTable(s, method) ==
    IF s \in store /\ Val(heap[s]).state \in HandlerSources(method)
    THEN /\ last'[s].status = "accepted"
         /\ Val(heap'[s]).state = HandlerTarget(method)
         /\ method = "handleDataStart" => Len(Val(heap[s]).rcptTo) >= 1
         /\ Val(heap'[s]).messageCount =
               Val(heap[s]).messageCount + (IF method = "handleDataComplete" THEN 1 ELSE 0)
    ELSE /\ last'[s].status = "rejected"
         /\ heap'[s] = heap[s]

C4_TransitionTable ==
    [][\A s \in SessionIds :
          /\ \A h \in Hostnames \cup {NULL} : MgrHello(s, h) => FollowsTable(s, "handleHello")
          /\ \A user \in Users :
                MgrAuthentication(s, user) => FollowsTable(s, "handleAuthentication")
          /\ \A a \in Senders : MgrMailFrom(s, a) => FollowsTable(s, "handleMailFrom")
          /\ \A a \in Recipients : MgrRcptTo(s, a) => FollowsTable(s, "handleRcptTo")
          /\ MgrDataStart(s) => FollowsTable(s, "handleDataStart")
          /\ \A m \in MessageIds :
                MgrDataComplete(s, m) => FollowsTable(s, "handleDataComplete")]_vars

\* handleDataComplete was refused on a session that has completed one
\* message and begun the next
C4_Witness ==
    \E s \in store :
        /\ last[s] = Reply("handleDataComplete", "rejected", NULL, NULL)
        /\ Val(heap[s]).state = "MAIL_FROM"
        /\ Val(heap[s]).messageCount = 1

\* ------------------------------------------------------------------------
\* C5  When AUTH is issued in HELLO and the pipeline fails (a thrown
\* exception included) the session stays in HELLO with authenticated =
\* false, no user and no new history entry; the response is 535 or 454 of
\* the authentication taxonomy, never the sequencing 503; and AUTH is
\* still executable on the session afterwards.
\* ------------------------------------------------------------------------
PipelineFails(s, keyFault, inboxFault) ==
    \E p \in pend[s] :
        /\ p.kind = "AUTH"
        /\ ~validateSMTPCredentials(p.username, p.password, keyTable, inboxTable,
                                    keyFault, inboxFault, now).success

C5_FailedAuthStaysInHello ==
    [][\A s \in SessionIds, kf \in BOOLEAN, inf \in BOOLEAN :
          (OnAuthEnd(s, kf, inf) /\ PipelineFails(s, kf, inf)) =>
              /\ Fields(heap'[s]) = Fields(heap[s])
              /\ Val(heap'[s]).state = "HELLO"
              /\ ~Val(heap'[s]).authenticated
              /\ Val(heap'[s]).user = NULL
              /\ last'[s].status = "rejected"
              /\ Val(last'[s].resp).code \in {535, 454}
              /\ Val(last'[s].resp) # SequencingResponse
              /\ s \in store' => canExecuteCommand(heap'[s], "AUTH")]_vars

\* an AUTH was accepted on a connection that had an AUTH fail before
C5_Witness ==
    \E s \in authFailed \cap store :
        /\ HasAttempt(s)
        /\ last[s].status = "accepted"
        /\ Val(heap[s]).state = "AUTHENTICATED"

\* ------------------------------------------------------------------------
\* C6  (second half) With the commands of a session delivered one at a
\* time, whenever onAuth reports success (235 2.7.0) the session is in
\* AUTHENTICATED with authenticated = true and user holding the identity
\* the pipeline returned.
\* ------------------------------------------------------------------------
C6_SuccessMeansAuthenticated ==
    [][\A s \in SessionIds, kf \in BOOLEAN, inf \in BOOLEAN :
          (OnAuthEnd(s, kf, inf) /\ last'[s].resp = Some(AuthSuccessful)) =>
              LET session == Val(heap'[s])
                  attempt == Val(last'[s].auth)
              IN /\ session.state = "AUTHENTICATED"
                 /\ session.authenticated
                 /\ session.user = Some(SessionUser(Val(attempt.result.user),
                                                    attempt.password))]_vars

\* C6  (first half) Well-formed credentials that resolve to a key that is
\* not revoked, not expired and holds smtp:send, and to an inbox that
\* exists, is neither disabled nor suspended and has the key's
\* organization, make validateSMTPCredentials succeed with inbox_id,
\* organization_id and email_address of the inbox record and api_key_id
\* of the key record.
C6_ValidCredentialsYieldIdentity ==
    \A s \in SessionIds :
        HasAttempt(s) =>
            LET a == Attempt(s)
                key == getApiKey(keyTable, a.password)
                inbox == getInbox(inboxTable, a.username)
            IN (/\ validateInboxIdFormat(a.username) /\ validateApiKeyFormat(a.password)
                /\ ~a.keyFault /\ ~a.inboxFault
                /\ key # NULL /\ inbox # NULL
                /\ Val(key).revoked_at = NULL
                /\ Val(key).expires_at # NULL => Val(Val(key).expires_at) >= now
                /\ Val(key).scopes # NULL
                /\ SMTP_SEND \in Val(Val(key).scopes)
                /\ Val(inbox).status \notin {"disabled", "suspended"}
                /\ Val(inbox).organization_id = Val(key).organization_id)
               => /\ a.result.success
                  /\ a.result.user = Some([inbox_id |-> Val(inbox).inbox_id,
                                           organization_id |-> Val(inbox).organization_id,
                                           email_address |-> Val(inbox).email_address,
                                           api_key_id |-> Val(key).api_key_id])

\* ------------------------------------------------------------------------
\* C7  validateSMTPCredentials evaluates its nine checks strictly in the
\* order inbox-id format, API-key format, key lookup, revocation, expiry,
\* scope, inbox lookup, inbox status, organization match, and returns the
\* reason of the first check that fails: its result equals that of the
\* reference 'first failing step' function, and the inbox lookup is
\* performed only when checks 1 to 6 all passed.
\* ------------------------------------------------------------------------
\* the nine checks, each on its own: does it fail, and with what reason
ReferenceChecks(username, password, keys, inboxes, keyFault, inboxFault, t) ==
    LET key == getApiKey(keys, password)
        inbox == getInbox(inboxes, username)
        hasKey == ~keyFault /\ key # NULL
        hasInbox == ~inboxFault /\ inbox # NULL
    IN << [fails |-> username = EMPTY \/ ~validateInboxIdFormat(username),
           reason |-> "INVALID_INBOX_ID_FORMAT"],
          [fails |-> password = EMPTY \/ ~validateApiKeyFormat(password),
           reason |-> "INVALID_API_KEY_FORMAT"],
          [fails |-> ~hasKey,
           reason |-> IF keyFault THEN "DATABASE_ERROR" ELSE "API_KEY_NOT_FOUND"],
          [fails |-> hasKey /\ Val(key).revoked_at # NULL,
           reason |-> "API_KEY_REVOKED"],
          [fails |-> hasKey /\ Val(key).expires_at # NULL /\ Val(Val(key).expires_at) < t,
           reason |-> "API_KEY_EXPIRED"],
          [fails |-> hasKey /\ Val(key).scopes # NULL /\ SMTP_SEND \notin Val(Val(key).scopes),
           reason |-> "INSUFFICIENT_PERMISSIONS"],
          [fails |-> ~hasInbox,
           reason |-> IF inboxFault THEN "DATABASE_ERROR" ELSE "INBOX_NOT_FOUND"],
          [fails |-> hasInbox /\ Val(inbox).status \in {"disabled", "suspended"},
           reason |-> IF hasInbox /\ Val(inbox).status = "disabled"
                      THEN "INBOX_DISABLED" ELSE "INBOX_SUSPENDED"],
          [fails |-> hasKey /\ hasInbox
                     /\ Val(inbox).organization_id # Val(key).organization_id,
           reason |-> "INBOX_ORG_MISMATCH"] >>

\* the reason of the first failing check, "SUCCESS" when none fails
FirstFailingStep(checks) ==
    IF \E i \in DOMAIN checks : checks[i].fails
    THEN checks[CHOOSE i \in DOMAIN checks :
                    checks[i].fails /\ \A j \in 1..(i - 1) : ~checks[j].fails].reason
    ELSE "SUCCESS"

Outcome(result) == IF result.success THEN "SUCCESS" ELSE Reason(result)

C7_FirstFailingStep ==
    \A s \in SessionIds :
        (HasAttempt(s) /\ ~Attempt(s).result.threw) =>
            LET a == Attempt(s)
                checks == ReferenceChecks(a.username, a.password, keyTable, inboxTable,
                                          a.keyFault, a.inboxFault, now)
                looked == {a.result.lookups[i] : i \in DOMAIN a.result.lookups}
            IN /\ Outcome(a.result) = FirstFailingStep(checks)
               /\ "getInbox" \in looked => \A i \in 1..6 : ~checks[i].fails
               /\ "getInbox" \in looked => a.result.lookups = <<"getApiKey", "getInbox">>

\* an attempt that failed the expiry check although the scope check and
\* the inbox lookup would have failed too
C7_Witness ==
    \E s \in SessionIds :
        /\ HasAttempt(s)
        /\ Failed(Attempt(s).result)
        /\ Reason(Attempt(s).result) = "API_KEY_EXPIRED"
        /\ LET checks == ReferenceChecks(Attempt(s).username, Attempt(s).password, keyTable,
                                         inboxTable, Attempt(s).keyFault,
                                         Attempt(s).inboxFault, now)
           IN checks[6].fails /\ checks[7].fails

\* ------------------------------------------------------------------------
\* C8  For every username or password that is empty or fails its format
\* check, validateSMTPCredentials returns INVALID_INBOX_ID_FORMAT or
\* INVALID_API_KEY_FORMAT and performs no store lookup.
\* ------------------------------------------------------------------------
\* the credential-secret format: am_ followed by 32 to 128 alphanumerics
MalformedPassword(p) ==
    \/ p = EMPTY
    \/ Len(p) < 3 + 32
    \/ Len(p) > 3 + 128
    \/ SubSeq(p, 1, 3) # <<"a", "m", "_">>
    \/ \E i \in 4..Len(p) : p[i] \notin Alnum

MalformedUsername(u) == u = EMPTY \/ ~validateInboxIdFormat(u)

C8_MalformedInputNoLookup ==
    \A s \in SessionIds :
        (HasAttempt(s) /\ (MalformedUsername(Attempt(s).username)
                           \/ MalformedPassword(Attempt(s).password))) =>
            /\ Failed(Attempt(s).result)
            /\ Reason(Attempt(s).result) =
                  IF MalformedUsername(Attempt(s).username)
                  THEN "INVALID_INBOX_ID_FORMAT" ELSE "INVALID_API_KEY_FORMAT"
            /\ Len(Attempt(s).result.lookups) = 0

\* a key one character short of the format was refused with no lookup
C8_Witness ==
    \E s \in SessionIds :
        /\ HasAttempt(s)
        /\ Attempt(s).username = U_VALID
        /\ Attempt(s).password = P_LEN31
        /\ Failed(Attempt(s).result)
        /\ Attempt(s).result.lookups = <<>>

\* ------------------------------------------------------------------------
\* C9  Store faults are never conflated with permanent failures: a key or
\* inbox lookup that throws yields DATABASE_ERROR, one that returns no
\* record yields API_KEY_NOT_FOUND or INBOX_NOT_FOUND, never the other
\* way round; and a reason maps to 454 4.7.0 if and only if it is
\* DATABASE_ERROR, RATE_LIMITED or SERVICE_UNAVAILABLE, every other
\* reason mapping to 535 5.7.8.
\* ------------------------------------------------------------------------
TemporaryReasons == {"DATABASE_ERROR", "RATE_LIMITED", "SERVICE_UNAVAILABLE"}

TaxonomyFamilies ==
    \A c \in AuthErrorCode :
        IF c \in TemporaryReasons
        THEN AUTH_ERRORS[c].smtpCode = 454 /\ AUTH_ERRORS[c].enhancedCode = "4.7.0"
        ELSE AUTH_ERRORS[c].smtpCode = 535 /\ AUTH_ERRORS[c].enhancedCode = "5.7.8"

C9_FaultsNotConflated ==
    /\ TaxonomyFamilies
    /\ \A s \in SessionIds :
          (HasAttempt(s) /\ Failed(Attempt(s).result)) =>
              LET a == Attempt(s)
                  reason == Reason(a.result)
                  keyLooked == Len(a.result.lookups) >= 1
                  inboxLooked == Len(a.result.lookups) >= 2
              IN /\ (keyLooked /\ a.keyFault) => reason = "DATABASE_ERROR"
                 /\ (keyLooked /\ ~a.keyFault /\ getApiKey(keyTable, a.password) = NULL)
                        => reason = "API_KEY_NOT_FOUND"
                 /\ (inboxLooked /\ a.inboxFault) => reason = "DATABASE_ERROR"
                 /\ (inboxLooked /\ ~a.inboxFault /\ getInbox(inboxTable, a.username) = NULL)
                        => reason = "INBOX_NOT_FOUND"
                 /\ reason = "DATABASE_ERROR" =>
                        \/ keyLooked /\ ~inboxLooked /\ a.keyFault
                        \/ inboxLooked /\ a.inboxFault
                 /\ reason = "API_KEY_NOT_FOUND" =>
                        ~a.keyFault /\ getApiKey(keyTable, a.password) = NULL
                 /\ reason = "INBOX_NOT_FOUND" =>
                        ~a.inboxFault /\ getInbox(inboxTable, a.username) = NULL
                 /\ Val(last[s].resp).code = (IF reason \in TemporaryReasons THEN 454 ELSE 535)
                 /\ Val(last[s].resp).enhancedCode =
                        (IF reason \in TemporaryReasons THEN "4.7.0" ELSE "5.7.8")

\* the lookup of an inbox that does not exist threw: DATABASE_ERROR, 454
C9_Witness ==
    \E s \in SessionIds :
        /\ HasAttempt(s)
        /\ Attempt(s).inboxFault
        /\ getInbox(inboxTable, Attempt(s).username) = NULL
        /\ Failed(Attempt(s).result)
        /\ Reason(Attempt(s).result) = "DATABASE_ERROR"
        /\ Attempt(s).result.lookups = <<"getApiKey", "getInbox">>
        /\ Val(last[s].resp).code = 454

\* ------------------------------------------------------------------------
\* C10  For every well-formed password that resolves to a key that is
\* not revoked, not expired and lacks smtp:send, the AUTH response is
\* 535 5.7.8 'Insufficient permissions for SMTP access', distinct from
\* the generic message, and the same for every well-formed username,
\* whether or not that inbox exists, is active or belongs to the key's
\* organization.
\* ------------------------------------------------------------------------
UnderScoped(keys, password, t) ==
    /\ validateApiKeyFormat(password)
    /\ getApiKey(keys, password) # NULL
    /\ LET key == Val(getApiKey(keys, password)) IN
          /\ key.revoked_at = NULL
          /\ key.expires_at # NULL => Val(key.expires_at) >= t
          /\ key.scopes # NULL
          /\ SMTP_SEND \notin Val(key.scopes)

ReachesKey(a) ==
    /\ validateInboxIdFormat(a.username)
    /\ validateApiKeyFormat(a.password)
    /\ ~a.keyFault
    /\ getApiKey(keyTable, a.password) # NULL
KeyOf(a) == Val(getApiKey(keyTable, a.password))

\* ------------------------------------------------------------------------
\* C11  Every API key record whose revoked_at is present and that is
\* reached with well-formed inputs makes authentication fail with
\* API_KEY_REVOKED, whatever its expiry, its scopes, and the existence,
\* status and organization of the inbox.
\* ------------------------------------------------------------------------
C11_RevokedAlwaysRefused ==
    \A s \in SessionIds :
        (HasAttempt(s) /\ ReachesKey(Attempt(s)) /\ KeyOf(Attempt(s)).revoked_at # NULL) =>
            /\ Failed(Attempt(s).result)
            /\ Reason(Attempt(s).result) = "API_KEY_REVOKED"
            /\ last[s].status = "rejected"

\* a revoked key that is also expired and under-scoped, tried on an inbox
\* that does not exist
C11_Witness ==
    \E s \in SessionIds :
        /\ HasAttempt(s)
        /\ ReachesKey(Attempt(s))
        /\ KeyOf(Attempt(s)).revoked_at # NULL
        /\ KeyOf(Attempt(s)).expires_at = Some(StartTime - 1)
        /\ KeyOf(Attempt(s)).scopes = Some({"messages:read"})
        /\ getInbox(inboxTable, Attempt(s).username) = NULL
        /\ Reason(Attempt(s).result) = "API_KEY_REVOKED"

\* ------------------------------------------------------------------------
\* C12  For every non-revoked API key record the expiry check fails with
\* API_KEY_EXPIRED exactly when expires_at is present and strictly
\* earlier than the evaluation time; a key whose expires_at is absent,
\* equal to the evaluation time or later passes the expiry check.
\* ------------------------------------------------------------------------
C12_ExpiryStrictlyBefore ==
    \A s \in SessionIds :
        (HasAttempt(s) /\ ReachesKey(Attempt(s)) /\ KeyOf(Attempt(s)).revoked_at = NULL) =>
            LET expires == KeyOf(Attempt(s)).expires_at
                refused == /\ Failed(Attempt(s).result)
                           /\ Reason(Attempt(s).result) = "API_KEY_EXPIRED"
            IN refused <=> (expires # NULL /\ Val(expires) < now)

\* a key that expires at the very evaluation time authenticated
C12_Witness ==
    \E s \in SessionIds :
        /\ HasAttempt(s)
        /\ ReachesKey(Attempt(s))
        /\ KeyOf(Attempt(s)).expires_at = Some(now)
        /\ Attempt(s).result.success
        /\ last[s].resp = Some(AuthSuccessful)

\* ------------------------------------------------------------------------
\* C13  An inbox and an API key that are each valid on their own (key
\* not revoked, not expired, holding smtp:send; inbox existing and
\* active) but whose organization_id values differ make authentication
\* fail with INBOX_ORG_MISMATCH, and the session is not authenticated.
\* ------------------------------------------------------------------------
C13_OrganizationMismatch ==
    \A s \in SessionIds :
        HasAttempt(s) =>
            LET a == Attempt(s)
                inbox == getInbox(inboxTable, a.username)
            IN (/\ ReachesKey(a)
                /\ ~a.inboxFault
                /\ KeyOf(a).revoked_at = NULL
                /\ KeyOf(a).expires_at # NULL => Val(KeyOf(a).expires_at) >= now
                /\ KeyOf(a).scopes # NULL
                /\ SMTP_SEND \in Val(KeyOf(a).scopes)
                /\ inbox # NULL
                /\ Val(inbox).status = "active"
                /\ Val(inbox).organization_id # KeyOf(a).organization_id)
               => /\ Failed(a.result)
                  /\ Reason(a.result) = "INBOX_ORG_MISMATCH"
                  /\ last[s].status = "rejected"
                  /\ ~Val(heap[s]).authenticated
                  /\ Val(heap[s]).user = NULL
                  /\ Val(heap[s]).state = "HELLO"

\* the mock store's key of org_xyz was tried on the active inbox of org_abc
C13_Witness ==
    \E s \in SessionIds :
        /\ HasAttempt(s)
        /\ Attempt(s).username = U_VALID
        /\ Attempt(s).password = P_WRONGORG
        /\ keyTable = MOCK_API_KEYS
        /\ Reason(Attempt(s).result) = "INBOX_ORG_MISMATCH"
        /\ ~Val(heap[s]).authenticated

\* ------------------------------------------------------------------------
\* C14  In every reachable state of every session, authenticated is true
\* if and only if user is present.
\* ------------------------------------------------------------------------
C14_AuthenticatedIffUser ==
    \A s \in SessionIds :
        heap[s] # NULL => (Val(heap[s]).authenticated <=> Val(heap[s]).user # NULL)

\* an authenticated session that has completed a message and begun the next
C14_Witness ==
    \E s \in store :
        /\ Val(heap[s]).authenticated
        /\ Val(heap[s]).user # NULL
        /\ Val(heap[s]).messageCount = 1
        /\ Val(heap[s]).state = "MAIL_FROM"

\* ------------------------------------------------------------------------
\* C15  A session authenticates at most once per connection: once its
\* user is set it is never replaced or cleared (across transactions and
\* under two overlapping AUTH attempts), its history holds at most one
\* AUTH transition, and every AUTH issued when the session is not in
\* HELLO is rejected with 503 5.5.1.
\* ------------------------------------------------------------------------
AuthTransitions(session) ==
    Cardinality({i \in DOMAIN session.stateHistory : session.stateHistory[i].command = "AUTH"})

UserKept ==
    \A s \in SessionIds :
        (heap[s] # NULL /\ Val(heap[s]).user # NULL) =>
            /\ heap'[s] # NULL
            /\ Val(heap'[s]).user = Val(heap[s]).user
            /\ Val(heap'[s]).authenticated

AuthOutsideHelloRejected ==
    \A s \in SessionIds, u \in OverlapUsernames, p \in OverlapPasswords :
        ((OnAuthBegin(s, u, p) \/ OnAuthOverlapping(s, u, p))
            /\ s \in store /\ Val(heap[s]).state # "HELLO") =>
            /\ last'[s] = Rejected("AUTH", SequencingResponse)
            /\ pend'[s] = pend[s]

C15_AuthenticatesOnce ==
    /\ [](\A s \in SessionIds : heap[s] # NULL => AuthTransitions(Val(heap[s])) <= 1)
    /\ [][UserKept /\ AuthOutsideHelloRejected]_vars

\* a second, overlapping AUTH with another identity succeeded in the
\* pipeline after the session had authenticated with the first
C15_Witness ==
    \E s \in store :
        /\ HasAttempt(s)
        /\ Attempt(s).result.success
        /\ Val(heap[s]).user # NULL
        /\ Val(Attempt(s).result.user).inbox_id # Val(Val(heap[s]).user).inbox_id

\* ------------------------------------------------------------------------
\* C16  A MAIL FROM issued on a session that is not authenticated is
\* rejected with 530 5.7.0 'Authentication required' (not with 503,
\* although HELLO is a legal source of MAIL in the transition table) and
\* leaves the session's state, sender, recipients and history unchanged.
\* ------------------------------------------------------------------------
AuthRequiredResponse == Response(530, "5.7.0", "Authentication required")

C16_MailNeedsAuthentication ==
    [][\A s \in SessionIds, a \in Senders :
          (OnMailFrom(s, a) /\ s \in store /\ ~Val(heap[s]).authenticated) =>
              /\ last'[s] = Rejected("MAIL", AuthRequiredResponse)
              /\ AuthRequiredResponse # SequencingResponse
              /\ "HELLO" \in COMMAND_STATE_TRANSITIONS["MAIL"].from
              /\ Fields(heap'[s]) = Fields(heap[s])]_vars

\* MAIL was refused for want of authentication on a session in HELLO that
\* had an AUTH fail before
C16_Witness ==
    \E s \in store \cap authFailed :
        /\ last[s] = Rejected("MAIL", AuthRequiredResponse)
        /\ Val(heap[s]).state = "HELLO"
        /\ Val(heap[s]).mailFrom = NULL
        /\ Len(Val(heap[s]).stateHistory) = 1

\* ------------------------------------------------------------------------
\* C17: a session's recipient list never holds more than MAX_RECIPIENTS (50)
\* entries, and an RCPT command arriving when the list holds 50 leaves the
\* list and the session state as they were.
RcptAtLimitChangesNothing ==
    \A s \in SessionIds, a \in Recipients :
        (OnRcptTo(s, a) /\ s \in store /\ Len(Val(heap[s]).rcptTo) = 50) =>
            /\ Val(heap'[s]).rcptTo = Val(heap[s]).rcptTo
            /\ Val(heap'[s]).state = Val(heap[s]).state

C17_RecipientLimit ==
    /\ [](MAX_RECIPIENTS = 50 /\ \A s \in SessionIds : heap[s] # NULL => Len(Val(heap[s]).rcptTo) <= 50)
    /\ [][RcptAtLimitChangesNothing]_vars

\* an RCPT command was refused on a session that holds 50 recipients
C17_Witness ==
    \E s \in store :
        /\ Len(Val(heap[s]).rcptTo) = 50
        /\ Val(heap[s]).state = "RCPT_TO"
        /\ last[s].cmd = "RCPT"
        /\ last[s].status = "rejected"

\* ------------------------------------------------------------------------
\* C18: an RCPT accepted in RCPT_TO appends the recipient, keeps the state
\* RCPT_TO and adds no stateHistory entry; only the first RCPT of a
\* transaction, taken from MAIL_FROM, records a transition. The RCPT that
\* would be recipient number MAX_RECIPIENTS+1 is answered 452 4.5.3
\* 'Too many recipients', which is not the sequencing answer 503 5.5.1.
TooManyRecipientsResponse == Response(452, "4.5.3", "Too many recipients")

C18_RepeatedRcpt ==
    [][\A s \in SessionIds, a \in Recipients :
          (OnRcptTo(s, a) /\ s \in store) =>
              LET before == Val(heap[s])
                  after  == Val(heap'[s])
              IN /\ (before.state = "RCPT_TO" /\ Len(before.rcptTo) < 50) =>
                        /\ last'[s].status = "accepted"
                        /\ after.rcptTo = Append(before.rcptTo, [address |-> a, addedAt |-> now])
                        /\ after.state = "RCPT_TO"
                        /\ after.stateHistory = before.stateHistory
                 /\ (before.state = "MAIL_FROM" /\ before.authenticated) =>
                        /\ last'[s].status = "accepted"
                        /\ after.rcptTo = <<[address |-> a, addedAt |-> now]>>
                        /\ after.state = "RCPT_TO"
                        /\ Len(after.stateHistory) = Len(before.stateHistory) + 1
                        /\ SubSeq(after.stateHistory, 1, Len(before.stateHistory)) = before.stateHistory
                        /\ after.stateHistory[Len(after.stateHistory)].command = "RCPT"
                 /\ (before.state = "RCPT_TO" /\ Len(before.rcptTo) = 50) =>
                        /\ last'[s] = Rejected("RCPT", TooManyRecipientsResponse)
                        /\ TooManyRecipientsResponse # SequencingResponse
                        /\ SequencingResponse.code = 503
                        /\ SequencingResponse.enhancedCode = "5.5.1"]_vars

\* the fiftieth recipient was accepted and the transaction's history holds
\* the single RCPT transition of its first recipient
C18_Witness ==
    \E s \in store :
        /\ Len(Val(heap[s]).rcptTo) = 50
        /\ last[s] = Accepted("RCPT", Response(250, "2.1.5", "Recipient OK"))
        /\ Val(heap[s]).messageCount = 0
        /\ Cardinality({i \in DOMAIN Val(heap[s]).stateHistory :
                           Val(heap[s]).stateHistory[i].command = "RCPT"}) = 1

\* ------------------------------------------------------------------------
\* C19: for a session in COMPLETED, an accepted MAIL FROM leaves the session
\* in MAIL_FROM with rcptTo empty, messageId and messageData cleared and
\* mailFrom equal to the new sender only, while authenticated, user, the
\* connection metadata, createdAt, authenticatedAt and messageCount are what
\* they were.
C19_MailAfterCompleted ==
    [][\A s \in SessionIds, a \in Senders :
          (/\ OnMailFrom(s, a)
           /\ s \in store
           /\ Val(heap[s]).state = "COMPLETED"
           /\ last'[s].status = "accepted") =>
              LET before == Val(heap[s])
                  after  == Val(heap'[s])
              IN /\ after.state = "MAIL_FROM"
                 /\ after.rcptTo = <<>>
                 /\ after.messageId = NULL
                 /\ after.messageData = NULL
                 /\ after.mailFrom = Some(a)
                 /\ after.authenticated = before.authenticated
                 /\ after.user = before.user
                 /\ after.connection = before.connection
                 /\ after.timestamps.createdAt = before.timestamps.createdAt
                 /\ after.timestamps.authenticatedAt = before.timestamps.authenticatedAt
                 /\ after.messageCount = before.messageCount]_vars

\* a second transaction was opened by a sender other than the first
\* transaction's, on a session that has completed one message
C19_Witness ==
    \E s \in store :
        LET session == Val(heap[s])
            n == Len(session.stateHistory)
        IN /\ session.state = "MAIL_FROM"
           /\ session.messageCount = 1
           /\ session.mailFrom = Some("other@agentmail.dev")
           /\ last[s] = Accepted("MAIL", Response(250, "2.1.0", "Sender OK"))
           /\ n >= 2
           /\ session.stateHistory[n].command = "MAIL"
           /\ session.stateHistory[n - 1].command = "RESET"
           /\ session.stateHistory[n - 1].from = "COMPLETED"
           /\ \E i \in 1..n : /\ session.stateHistory[i].command = "MAIL"
                              /\ i < n

\* ------------------------------------------------------------------------
\* C20: after a message was received completely a new MAIL FROM is accepted
\* without a new AUTH; after n completed transactions messageCount is n
\* (2 after the second); messageCount is never decremented or reset while
\* the session exists.
Completions(session) ==
    Cardinality({i \in DOMAIN session.stateHistory :
                    session.stateHistory[i].command = "DATA_COMPLETE"})

MailAcceptedAfterCompletion ==
    \A s \in SessionIds, a \in Senders :
        (OnMailFrom(s, a) /\ s \in store /\ Val(heap[s]).state = "COMPLETED") =>
            /\ last'[s] = Accepted("MAIL", Response(250, "2.1.0", "Sender OK"))
            /\ AuthTransitions(Val(heap'[s])) = AuthTransitions(Val(heap[s]))
            /\ AuthTransitions(Val(heap[s])) = 1

CountsCompletions ==
    \A s \in SessionIds :
        (s \in store /\ s \in store') =>
            IF \E m \in MessageIds :
                   OnDataEnd(s, [ok |-> TRUE, messageId |-> m, httpStatus |-> 200])
            THEN Val(heap'[s]).messageCount = Val(heap[s]).messageCount + 1
            ELSE Val(heap'[s]).messageCount = Val(heap[s]).messageCount

C20_MessageCount ==
    /\ [](\A s \in store : Val(heap[s]).messageCount = Completions(Val(heap[s])))
    /\ [][MailAcceptedAfterCompletion /\ CountsCompletions]_vars

\* two transactions were completed on one authentication
C20_Witness ==
    \E s \in store :
        /\ Val(heap[s]).messageCount = 2
        /\ Completions(Val(heap[s])) = 2
        /\ AuthTransitions(Val(heap[s])) = 1
        /\ Val(heap[s]).state = "COMPLETED"
        /\ last[s].cmd = "DATA"
        /\ last[s].status = "accepted"

\* ------------------------------------------------------------------------
\* C21: no reachable session state is a dead end: on an open connection
\* whose session is registered and has no hook awaiting, some client command
\* (AUTH, MAIL, RCPT or DATA) can be taken up and not refused. A refused
\* command changes no state a later command depends on unless it is the
\* refused DATA itself, so a state in which every command is refused stays
\* one for as long as the connection lasts.
CommandTakenUp(s) ==
    \/ \E u \in Usernames, p \in Passwords :
          OnAuthBegin(s, u, p) /\ last'[s].status = "pending"
    \/ \E a \in Senders : OnMailFrom(s, a) /\ last'[s].status = "accepted"
    \/ \E a \in Recipients : OnRcptTo(s, a) /\ last'[s].status = "accepted"
    \/ OnDataBegin(s) /\ last'[s].status = "pending"

C21_NoDeadEnd ==
    \A s \in SessionIds :
        (s \in store /\ conn[s] = "open" /\ pend[s] = {}) => ENABLED CommandTakenUp(s)

\* ------------------------------------------------------------------------
\* C22: a disconnect is taken in every session state and removes the session
\* from the store; afterwards getSession finds nothing under the id, and no
\* hook of that session that was still awaiting puts the session back or
\* changes its authentication or transaction fields; deleting an id that is
\* already absent returns false and changes nothing.
DisconnectRemoves ==
    \A s \in SessionIds :
        OnClose(s) =>
            /\ s \notin store'
            /\ deleteSession(store, s).ret = (s \in store)
            /\ s \notin store =>
                  /\ deleteSession(store, s).ret = FALSE
                  /\ deleteSession(store, s).ids = store
                  /\ store' = store
                  /\ heap' = heap

NothingAfterDisconnect ==
    \A s \in SessionIds :
        conn[s] = "closed" =>
            /\ s \notin store
            /\ s \notin store'
            /\ heap'[s] = heap[s]

C22_Disconnect ==
    /\ [](\A s \in SessionIds : conn[s] = "open" => ENABLED OnClose(s))
    /\ [](\A s \in SessionIds : conn[s] = "closed" => getSession(s) = NULL)
    /\ [][DisconnectRemoves /\ NothingAfterDisconnect]_vars

\* an AUTH that was awaiting its lookups when the client disconnected has
\* ended with valid credentials, and the session is absent and unauthenticated
C22_Witness ==
    \E s \in SessionIds :
        /\ conn[s] = "closed"
        /\ s \notin store
        /\ pend[s] = {}
        /\ last[s].cmd = "AUTH"
        /\ last[s].auth # NULL
        /\ Val(last[s].auth).result.success
        /\ ~Val(heap[s]).authenticated
        /\ Val(heap[s]).user = NULL

\* ------------------------------------------------------------------------
\* C23: a disconnect stops further processing for its session: once onClose
\* has run, no submission (sendMessage) is started for the session and no
\* success response is produced for it, even if a DATA or AUTH hook of the
\* session was awaiting when the disconnect happened.
C23_DisconnectStopsProcessing ==
    [][\A s \in SessionIds :
          conn[s] = "closed" =>
              /\ submits'[s] = submits[s]
              /\ last'[s] # last[s] => last'[s].status # "accepted"]_vars

\* ------------------------------------------------------------------------
\* C24: one reaper sweep removes exactly the sessions whose inactivity
\* (now - lastActivityAt) is strictly greater than SESSION_TIMEOUT_MS, keeps
\* every session whose inactivity is at most the timeout with all fields
\* unchanged, whatever its protocol state, and returns the number of
\* sessions it removed.
Inactivity(s) == now - Val(heap[s]).timestamps.lastActivityAt

C24_SweepRemovesExactlyExpired ==
    [][Cleanup =>
          /\ \A s \in store : s \notin store' <=> Inactivity(s) > 30 * 60 * 1000
          /\ store' \subseteq store
          /\ \A s \in store' : heap'[s] = heap[s]
          /\ cleanupExpiredSessions(store, [s \in store |-> Val(heap[s])], now).ret
                 = Cardinality(store \ store')]_vars

\* a sweep removed the session that was idle for one millisecond more than
\* the timeout (its connection is still open) and kept the other, idle for
\* exactly the timeout and in another protocol state
C24_Witness ==
    \E s, r \in ReaperIds :
        /\ s \in store
        /\ r \notin store
        /\ conn[r] = "open"
        /\ Inactivity(s) = SESSION_TIMEOUT_MS
        /\ Inactivity(r) = SESSION_TIMEOUT_MS + 1
        /\ Val(heap[s]).state # Val(heap[r]).state

\* ------------------------------------------------------------------------
\* C25: sweeps, disconnects and command hooks of different sessions
\* interleave in any order: when a sweep and the disconnect of one session
\* race, the session ends up absent with no error whichever comes first, the
\* sweep's count holds only sessions the sweep itself removed, every other
\* session's record is unchanged, and a sweep that is skipped or delayed
\* changes no session.
OnlyOwnSession(s) ==
    \A r \in ReaperIds \ {s} :
        /\ heap'[r] = heap[r]
        /\ (r \in store') = (r \in store)
        /\ pend'[r] = pend[r]
        /\ last'[r] = last[r]

SweepTouchesNoRecord ==
    Cleanup =>
        /\ heap' = heap
        /\ cleanupExpiredSessions(store, [s \in store |-> Val(heap[s])], now).ret
               = Cardinality({s \in ReaperIds : s \in store /\ s \notin store'})
        /\ \A s \in ReaperIds : conn[s] = "closed" => (s \notin store /\ s \notin store')

HooksTouchOwnSession ==
    \A s \in ReaperIds :
        /\ OnClose(s) => (s \notin store' /\ heap' = heap /\ OnlyOwnSession(s))
        /\ (\E h \in Hostnames : OnConnect(s, h)) => OnlyOwnSession(s)
        /\ OnAuthBegin(s, U_VALID, P_VALID) => OnlyOwnSession(s)
        /\ OnAuthEnd(s, FALSE, FALSE) => OnlyOwnSession(s)

RemovedOnlyByOwnDisconnectOrExpiry ==
    \A s \in ReaperIds :
        (s \in store /\ s \notin store') =>
            \/ OnClose(s)
            \/ Cleanup /\ Inactivity(s) > SESSION_TIMEOUT_MS

C25_ReaperInterleaving ==
    /\ [](\A s \in ReaperIds : conn[s] = "closed" => s \notin store)
    /\ [][/\ SweepTouchesNoRecord
          /\ HooksTouchOwnSession
          /\ RemovedOnlyByOwnDisconnectOrExpiry
          /\ TimePasses => (store' = store /\ heap' = heap)]_vars

\* one session was disconnected after it had expired, the other was removed
\* by a sweep while its connection stayed open
C25_Witness ==
    \E s, r \in ReaperIds :
        /\ conn[s] = "closed"
        /\ s \notin store
        /\ Inactivity(s) > SESSION_TIMEOUT_MS
        /\ conn[r] = "open"
        /\ r \notin store
        /\ Val(heap[r]).authenticated

\* ------------------------------------------------------------------------
\* C26: while the cleanup timer runs and time advances, every session that
\* receives no further command and is not disconnected is eventually removed
\* from the store by the reaper, whatever protocol state it is in. The
\* sessions it is stated for are those whose expiry lies within the instants
\* of the model's clock.
ExpiryInReach(t) == \E u \in ReaperTimes : u <= MaxClock /\ u - t > SESSION_TIMEOUT_MS

C26_EventuallyEvicted ==
    \A s \in ReaperIds, t \in ReaperTimes :
        (s \in store /\ Val(heap[s]).timestamps.lastActivityAt = t /\ ExpiryInReach(t))
            ~> (s \notin store \/ Val(heap[s]).timestamps.lastActivityAt # t)

\* an authenticated session that nothing was awaiting for has been removed
\* by the reaper on a connection that is still open
C26_Witness ==
    \E s \in ReaperIds :
        /\ conn[s] = "open"
        /\ s \notin store
        /\ pend[s] = {}
        /\ Val(heap[s]).state = "AUTHENTICATED"
        /\ Inactivity(s) > SESSION_TIMEOUT_MS
        /\ ExpiryInReach(Val(heap[s]).timestamps.lastActivityAt)

\* ------------------------------------------------------------------------
\* C27: every AUTH command eventually receives a response: if a lookup in
\* the credential store does not return, the attempt is ended after a
\* timeout and answered as a temporary failure (454 4.7.0) instead of
\* staying pending forever.
AuthAwaiting(s) == \E p \in pend[s] : p.kind \in {"AUTH", "AUTH_HUNG"}

C27_AuthAlwaysAnswered ==
    \A s \in SessionIds :
        AuthAwaiting(s) ~> (last[s].cmd = "AUTH" /\ last[s].status # "pending")

\* ------------------------------------------------------------------------
\* C28: every invocation of onAuth, onMailFrom, onRcptTo or onData that
\* returns calls its callback exactly once on every path: a command never
\* gets zero responses and never gets two. A hook that answers before its
\* first await answers in the step that takes the command; a hook that
\* awaits is one entry of pend, answered in the step that removes the entry.
Answers(s, cmd) ==
    /\ last'[s].cmd = cmd
    /\ last'[s].status \in {"accepted", "rejected"}
    /\ last'[s].resp # NULL

AnswersAtOnce(s, cmd) == Answers(s, cmd) /\ pend'[s] = pend[s]

StartsAwaiting(s, cmd) ==
    /\ last'[s] = Pending(cmd)
    /\ pend[s] = {}
    /\ Cardinality(pend'[s]) = 1

AnswersAwaited(s, cmd) ==
    /\ Answers(s, cmd)
    /\ pend'[s] \subseteq pend[s]
    /\ Cardinality(pend'[s]) = Cardinality(pend[s]) - 1

KeepsAwaiting(s) ==
    /\ last'[s] = last[s]
    /\ Cardinality(pend'[s]) = Cardinality(pend[s])

OneCallbackPerStep ==
    \A s \in SessionIds :
        /\ \A a \in Senders : OnMailFrom(s, a) => AnswersAtOnce(s, "MAIL")
        /\ \A a \in Recipients : OnRcptTo(s, a) => AnswersAtOnce(s, "RCPT")
        /\ \A u \in ScenarioUsernames, p \in ScenarioPasswords :
              OnAuthBegin(s, u, p) => (AnswersAtOnce(s, "AUTH") \/ StartsAwaiting(s, "AUTH"))
        /\ OnDataBegin(s) => (AnswersAtOnce(s, "DATA") \/ StartsAwaiting(s, "DATA"))
        /\ \A kf \in BOOLEAN, inf \in BOOLEAN :
              OnAuthEnd(s, kf, inf) => AnswersAwaited(s, "AUTH")
        /\ \A o \in {NULL} \cup {Some(e) : e \in ProcessingErrors} :
              OnDataParsed(s, o) => (AnswersAwaited(s, "DATA") \/ KeepsAwaiting(s))
        /\ \A o \in SendOutcomes : OnDataEnd(s, o) => AnswersAwaited(s, "DATA")
        /\ (OnClose(s) \/ Cleanup \/ Tick(TickStep)) =>
              (last'[s] = last[s] /\ pend'[s] = pend[s])

C28_ExactlyOneResponse ==
    /\ [](\A s \in SessionIds : (last[s].status = "pending") = (pend[s] # {}))
    /\ [][OneCallbackPerStep]_vars

\* a DATA command that was awaiting its submission has been answered with
\* the failure of the submission, and nothing is awaiting any more
C28_Witness ==
    \E s \in SessionIds :
        /\ pend[s] = {}
        /\ submits[s] = 1
        /\ last[s].cmd = "DATA"
        /\ last[s].status = "rejected"
        /\ last[s].resp # NULL

\* ------------------------------------------------------------------------
\* C29: for every command hook and every internal fault, unexpected
\* exceptions included, the message text of the error response sent to the
\* client is one of a fixed set of table-defined messages and never the text
\* of the thrown exception.
TableMessages ==
    {ERROR_MAPPINGS[n].message : n \in DOMAIN ERROR_MAPPINGS}
        \cup {HTTP_TO_SMTP_MAPPINGS[h].message : h \in DOMAIN HTTP_TO_SMTP_MAPPINGS}
        \cup {mapHttpToSmtp(h).message : h \in FailureStatuses}
        \cup {createSMTPAuthError(AUTH_ERRORS[c]).message : c \in DOMAIN AUTH_ERRORS}
        \cup {"Requested resource not found", "Rate limit exceeded", "Authentication failed",
              "Message too large", "Invalid parameter", "Timeout occurred", "Message rejected",
              "Temporary failure, please retry"}
        \cup {"Session error", "Bad sequence of commands", "Authentication required",
              "No recipients specified", "Too many recipients"}

ThrownTexts == {e.message : e \in ProcessingErrors \cup {E_NOUSER}}

C29_NoExceptionTextRelayed ==
    \A s \in SessionIds :
        (last[s].status = "rejected" /\ last[s].resp # NULL) =>
            /\ Val(last[s].resp).message \in TableMessages
            /\ Val(last[s].resp).message \notin ThrownTexts

\* ------------------------------------------------------------------------
\* C30: in every reachable state of every session, the timestamps of
\* consecutive stateHistory entries are strictly increasing, including the
\* RESET entry and the MAIL entry recorded by one MAIL FROM issued in
\* COMPLETED.
C30_HistoryStrictlyIncreasing ==
    \A s \in SessionIds :
        heap[s] # NULL =>
            \A i \in 1..(Len(Val(heap[s]).stateHistory) - 1) :
                Val(heap[s]).stateHistory[i].timestamp
                    < Val(heap[s]).stateHistory[i + 1].timestamp

\* ------------------------------------------------------------------------
\* C31: the transition history of a session is bounded: there is a fixed
\* bound that the length of stateHistory never exceeds, however many
\* transactions are completed on the connection. The bound tried here is the
\* smallest one that still keeps a whole transaction, the transitions of a
\* session from its greeting to its first completed message; a larger bound
\* is passed in the same way after more transactions.
TransitionsOfOneMessage == <<"EHLO", "AUTH", "MAIL", "RCPT", "DATA", "DATA_COMPLETE">>

C31_HistoryBounded ==
    \A s \in SessionIds :
        heap[s] # NULL => Len(Val(heap[s]).stateHistory) <= Len(TransitionsOfOneMessage)

\* ------------------------------------------------------------------------
\* C32: every successful handler call (EHLO, AUTH, MAIL, RCPT from MAIL_FROM
\* and from RCPT_TO, DATA start, DATA complete) sets the session's
\* lastActivityAt to the time of that call; lastActivityAt never decreases
\* and is never earlier than createdAt.
HandlerCalled(s) ==
    \/ \E h \in Hostnames : MgrHello(s, h)
    \/ \E user \in Users : MgrAuthentication(s, user)
    \/ \E a \in Senders : MgrMailFrom(s, a)
    \/ \E a \in Recipients : MgrRcptTo(s, a)
    \/ MgrDataStart(s)
    \/ \E m \in MessageIds : MgrDataComplete(s, m)

C32_ActivityRefreshed ==
    /\ [](\A s \in store : Val(heap[s]).timestamps.lastActivityAt
                              >= Val(heap[s]).timestamps.createdAt)
    /\ [][\A s \in SessionIds :
             /\ (HandlerCalled(s) /\ last'[s].status = "accepted") =>
                    Val(heap'[s]).timestamps.lastActivityAt = now
             /\ (s \in store /\ s \in store') =>
                    Val(heap'[s]).timestamps.lastActivityAt
                        >= Val(heap[s]).timestamps.lastActivityAt]_vars

\* a second recipient was accepted in RCPT_TO after the clock had moved on
\* from the session's creation
C32_Witness ==
    \E s \in store :
        /\ Len(Val(heap[s]).rcptTo) = 2
        /\ last[s].cmd = "handleRcptTo"
        /\ last[s].status = "accepted"
        /\ Val(heap[s]).timestamps.lastActivityAt = now
        /\ now > Val(heap[s]).timestamps.createdAt
        /\ Val(heap[s]).rcptTo[2].addedAt > Val(heap[s]).rcptTo[1].addedAt

\* ------------------------------------------------------------------------
\* C33: mapHttpToSmtp answers every integer status with a full result and
\* keeps the class of the status: 2xx gives 250, not retryable; a 4xx other
\* than 429 gives a 5xx reply, not retryable (403 gives 550 5.7.1 "Access
\* denied"); 429 gives 450, retryable; a 5xx gives a 4xx reply, retryable;
\* and retryable is true exactly when the SMTP code returned is a 4xx.
\* ------------------------------------------------------------------------
MapCalls == {s \in SessionIds : last[s].cmd = "mapHttpToSmtp"}
MapInput(s) == Val(last[s].auth)
MapResult(s) == Val(last[s].resp)

IsSmtp4xx(code) == code >= 400 /\ code < 500
IsSmtp5xx(code) == code >= 500 /\ code < 600

C33_MapHttpToSmtpClasses ==
    \A s \in MapCalls :
        LET h == MapInput(s)
            r == MapResult(s)
        IN /\ DOMAIN r = {"smtpCode", "enhancedCode", "message", "retryable"}
           /\ r.smtpCode \in Int
           /\ r.retryable \in BOOLEAN
           /\ (h >= 200 /\ h < 300) => (r.smtpCode = 250 /\ ~r.retryable)
           /\ (h >= 400 /\ h < 500 /\ h # 429) => (IsSmtp5xx(r.smtpCode) /\ ~r.retryable)
           /\ h = 403 => (r.smtpCode = 550 /\ r.enhancedCode = "5.7.1"
                          /\ r.message = "Access denied")
           /\ h = 429 => (r.smtpCode = 450 /\ r.retryable)
           /\ (h >= 500 /\ h < 600) => (IsSmtp4xx(r.smtpCode) /\ r.retryable)
           /\ r.retryable <=> IsSmtp4xx(r.smtpCode)

\* an unmapped client error (418) answered with the 550 default
C33_Witness ==
    \E s \in MapCalls :
        /\ MapInput(s) = 418
        /\ MapResult(s) = SMTPResult(550, "5.0.0", "Request rejected", FALSE)

\* ------------------------------------------------------------------------
\* C40: for every integer HTTP status, isRetryableHttpStatus gives the
\* retryable flag of mapHttpToSmtp, for mapped and unmapped statuses alike.
\* ------------------------------------------------------------------------
RetryableCalls == {s \in SessionIds : last[s].cmd = "isRetryableHttpStatus"}

NextStateCalls == {s \in SessionIds : last[s].cmd = "getNextState"}
LegalityCalls == {s \in SessionIds : last[s].cmd = "canExecuteCommandInState"}

C39_LegalityAgrees ==
    /\ \A s \in NextStateCalls :
          LET args == Val(last[s].auth) IN
          (Val(last[s].resp) # NULL) <=> canExecuteCommandInState(args[1], args[2])
    /\ \A s \in LegalityCalls :
          LET args == Val(last[s].auth) IN
          Val(last[s].resp) <=> (getNextState(args[1], args[2]) # NULL)

\* MAIL straight after the greeting: allowed by both tables
C39_Witness ==
    \E s \in NextStateCalls :
        /\ Val(last[s].auth) = <<"HELLO", "MAIL">>
        /\ Val(last[s].resp) = Some("MAIL_FROM")
        /\ canExecuteCommandInState("HELLO", "MAIL")

\* ------------------------------------------------------------------------
\* C34: in every state reachable through the hooks a session in MAIL_FROM,
\* RCPT_TO, DATA or COMPLETED is authenticated and has a user; every
\* accepted MAIL FROM comes after an accepted AUTH on the same session; and
\* the submission is only called for an authenticated session, although
\* the command table alone lets MAIL leave HELLO.
\* ------------------------------------------------------------------------
TransactionStates == {"MAIL_FROM", "RCPT_TO", "DATA", "COMPLETED"}

IsAuthenticated(o) == o # NULL /\ Val(o).authenticated /\ Val(o).user # NULL

TransactionImpliesAuthenticated ==
    \A s \in SessionIds :
        (heap[s] # NULL /\ Val(heap[s]).state \in TransactionStates) => IsAuthenticated(heap[s])

MailAcceptedAfterAuth ==
    \A s \in SessionIds, a \in Senders :
        (OnMailFrom(s, a) /\ last'[s].status = "accepted") =>
            /\ IsAuthenticated(heap[s])
            /\ AuthTransitions(Val(heap[s])) >= 1

SubmissionOnlyWhenAuthenticated ==
    \A s \in SessionIds : submits'[s] # submits[s] => IsAuthenticated(heap[s])

C34_TransactionNeedsAuth ==
    /\ []TransactionImpliesAuthenticated
    /\ [][MailAcceptedAfterAuth /\ SubmissionOnlyWhenAuthenticated]_vars

\* a message was handed to the submission API for an authenticated session,
\* and the table would have let MAIL leave HELLO
C34_Witness ==
    \E s \in store :
        /\ submits[s] >= 1
        /\ Val(heap[s]).state \in TransactionStates
        /\ IsAuthenticated(heap[s])
        /\ canExecuteCommandInState("HELLO", "MAIL")

\* ------------------------------------------------------------------------
\* C35: between hook calls, a session in HELLO or AUTHENTICATED has no
\* sender and no recipients; in MAIL_FROM it has a sender and no
\* recipients; in RCPT_TO, DATA or COMPLETED it has a sender and at least
\* one recipient.  Hence onData never answers "No recipients specified".
\* ------------------------------------------------------------------------
NoRecipientsResponse == createSMTPError(BAD_SEQUENCE, "5.5.1", "No recipients specified")

EnvelopeMatchesState ==
    \A s \in SessionIds :
        heap[s] # NULL =>
            LET session == Val(heap[s]) IN
            /\ session.state \in {"HELLO", "AUTHENTICATED"} =>
                  (session.mailFrom = NULL /\ session.rcptTo = <<>>)
            /\ session.state = "MAIL_FROM" =>
                  (session.mailFrom # NULL /\ session.rcptTo = <<>>)
            /\ session.state \in {"RCPT_TO", "DATA", "COMPLETED"} =>
                  (session.mailFrom # NULL /\ Len(session.rcptTo) >= 1)

NoRecipientsNeverAnswered ==
    \A s \in SessionIds : OnDataBegin(s) => last'[s] # Rejected("DATA", NoRecipientsResponse)

C35_EnvelopeShape ==
    /\ []EnvelopeMatchesState
    /\ [](\A s \in SessionIds : last[s].resp # Some(NoRecipientsResponse))
    /\ [][NoRecipientsNeverAnswered]_vars

\* DATA was taken up for a session with a sender and a recipient, and after
\* the next MAIL FROM the recipients of the earlier message are gone
C35_Witness ==
    \E s \in store :
        /\ Val(heap[s]).state = "MAIL_FROM"
        /\ Val(heap[s]).messageCount = 1
        /\ Val(heap[s]).mailFrom # NULL
        /\ Val(heap[s]).rcptTo = <<>>

\* ------------------------------------------------------------------------
\* C36: a session enters COMPLETED and its messageCount is incremented only
\* after the submission of that transaction returned success; messageCount
\* always equals the number of successful submissions made for the session
\* (it starts at 0 and grows by one with each of them, by nothing else);
\* each accepted DATA causes at most one submission; a failed parse,
\* validation or submission never increments messageCount.
\* ------------------------------------------------------------------------
SubmissionSucceeds(s) ==
    \E m \in MessageIds : OnDataEnd(s, [ok |-> TRUE, messageId |-> m, httpStatus |-> 200])

SubmissionCalled(s) == submits'[s] = submits[s] + 1

CountedWithSuccess(s) ==
    IF heap[s] = NULL
    THEN heap'[s] # NULL => Val(heap'[s]).messageCount = 0
    ELSE /\ heap'[s] # NULL
         /\ IF SubmissionSucceeds(s)
            THEN /\ Val(heap'[s]).messageCount = Val(heap[s]).messageCount + 1
                 /\ Val(heap'[s]).state = "COMPLETED"
            ELSE /\ Val(heap'[s]).messageCount = Val(heap[s]).messageCount
                 /\ Val(heap'[s]).state = "COMPLETED" => Val(heap[s]).state = "COMPLETED"

OneSubmissionPerData(s) ==
    /\ submits'[s] \in {submits[s], submits[s] + 1}
    /\ SubmissionCalled(s) =>
          /\ \E p \in pend[s] : p.kind = "DATA" /\ p.stage = "PARSE"
          /\ \A p \in pend'[s] : p.kind = "DATA" => p.stage = "SEND"
    /\ Cardinality({p \in pend'[s] : p.kind = "DATA"}) <= 1

C36_CountsSuccessfulSubmissions ==
    [][\A s \in SessionIds : CountedWithSuccess(s) /\ OneSubmissionPerData(s)]_vars

\* ------------------------------------------------------------------------
\* C37: the history is a faithful chain: its first entry leaves INIT, each
\* entry leaves the state the previous one entered, the last entry enters
\* the current state, and the state never changes without an entry being
\* appended.
\* ------------------------------------------------------------------------
FaithfulChain(session) ==
    LET h == session.stateHistory IN
    /\ Len(h) = 0 => session.state = "INIT"
    /\ Len(h) >= 1 => (h[1].from = "INIT" /\ h[Len(h)].to = session.state)
    /\ \A i \in 2 .. Len(h) : h[i].from = h[i - 1].to

StateChangeRecorded ==
    \A s \in SessionIds :
        (heap[s] # NULL /\ heap'[s] # NULL /\ Val(heap'[s]).state # Val(heap[s]).state) =>
            LET h == Val(heap[s]).stateHistory
                g == Val(heap'[s]).stateHistory
            IN /\ Len(g) > Len(h)
               /\ SubSeq(g, 1, Len(h)) = h
               /\ g[Len(h) + 1].from = Val(heap[s]).state

C37_HistoryChain ==
    /\ [](\A s \in SessionIds : heap[s] # NULL => FaithfulChain(Val(heap[s])))
    /\ [][StateChangeRecorded]_vars

\* a second transaction has begun: the chain runs through RESET back to
\* MAIL_FROM
C37_Witness ==
    \E s \in store :
        LET h == Val(heap[s]).stateHistory IN
        /\ Len(h) = 8
        /\ h[7].command = "RESET"
        /\ h[7].from = "COMPLETED"
        /\ h[8].from = "AUTHENTICATED"
        /\ Val(heap[s]).state = "MAIL_FROM"

\* ------------------------------------------------------------------------
\* C38: every AUTH, MAIL, RCPT or DATA hook on an existing session refreshes
\* lastActivityAt before it checks whether the command is legal, so a
\* rejected command postpones eviction as well: the sweep removes only a
\* session that has had no command for more than SESSION_TIMEOUT_MS.
\* ------------------------------------------------------------------------
CommandHook(s) ==
    \/ \E u \in ScenarioUsernames, p \in ScenarioPasswords : OnAuthBegin(s, u, p)
    \/ \E a \in Senders : OnMailFrom(s, a)
    \/ \E a \in Recipients : OnRcptTo(s, a)
    \/ OnDataBegin(s)

LastActivity(o) == Val(o).timestamps.lastActivityAt

HookRefreshesActivity ==
    \A s \in SessionIds :
        (s \in store /\ CommandHook(s)) =>
            /\ s \in store'
            /\ LastActivity(heap'[s]) = now
            /\ last'[s].status \in {"accepted", "rejected", "pending"}

ActivityNeverMovesBack ==
    \A s \in SessionIds :
        (s \in store /\ s \in store') => LastActivity(heap'[s]) >= LastActivity(heap[s])

SweepRemovesOnlySilent ==
    \A s \in SessionIds :
        (s \in store /\ s \notin store') =>
            /\ Cleanup
            /\ now - LastActivity(heap[s]) > SESSION_TIMEOUT_MS

C38_CommandsPostponeEviction ==
    [][HookRefreshesActivity /\ ActivityNeverMovesBack /\ SweepRemovesOnlySilent]_vars

\* a session older than the timeout is still registered, and a sweep now
\* would keep it, because of a command that was rejected
C38_Witness ==
    \E s \in store :
        /\ now - Val(heap[s]).timestamps.createdAt > SESSION_TIMEOUT_MS
        /\ LastActivity(heap[s]) > Val(heap[s]).timestamps.createdAt
        /\ now - LastActivity(heap[s]) <= SESSION_TIMEOUT_MS
        /\ now > LastActivity(heap[s])
        /\ last[s].status = "rejected"
        /\ Len(Val(heap[s]).stateHistory) = 1
        /\ cleanupExpiredSessions(store, [r \in store |-> Val(heap[r])], now).ids = store

====
